---- MODULE Spec2Model ----
(***************************************************************************)
(* Sanctuary sessions: session creation, invitations, the join-by-code     *)
(* route, the message moderation service, the Redis cache and channels,    *)
(* and the browser's real-time service.                                    *)
(*                                                                         *)
(* Spec      the persisted collections (sessions, invitations,             *)
(*           acknowledgments) and the concurrent join-by-code requests.    *)
(* SpecCap   sessions of every capacity, joined directly and by code.      *)
(* SpecLife  the session lifecycle: creation, direct join, end.            *)
(* SpecMod   AIModerationService.moderateMessage over every message.       *)
(* SpecAlert moderateMessage and the Redis emergency alert key, for the    *)
(*           participants of a session.                                    *)
(* SpecGem   the deep-analysis decision over every score tuple and level.  *)
(* SpecVoice moderateVoiceTranscript next to moderateMessage.              *)
(* SpecBatch batchModerate, with messages whose content is not a string.   *)
(* SpecSettings  the voice-settings route and validateVoiceSettings.       *)
(* SpecHost  the participant list under join, leave, kick, mute, promote.  *)
(* SpecInvite    invitation creation by every user.                        *)
(* SpecJoin  joins against sessions of either allowAnonymous setting that  *)
(*           may end.                                                      *)
(* SpecRace  concurrent direct joins: the read and the commit as two steps.*)
(* SpecOrder RedisService.updateSessionParticipants, calls in flight       *)
(*           together.                                                     *)
(* SpecBus   RedisService.publishToSession and subscribeToSession.         *)
(* SpecCreate    session creation with the token issuance failing, and the *)
(*           status endpoint served from the cache and from the store.     *)
(* SpecRt    the browser's RealTimeService: queue and reconnection.        *)
(* SpecApi   the browser's ApiClient: the 401 interceptor and the token    *)
(*           refresh.                                                      *)
(* SpecEm    RedisService.setEmergencyAlert: the store and the broadcast.  *)
(* SpecSock  the RealTimeService with the events of every socket it made.  *)
(* SpecUse   the join-by-code route with the usage increment failing.       *)
(* SpecLevel updateModerationLevel next to the cached session state.       *)
(* SpecRate  RedisService.checkRateLimit, calls in flight together.        *)
(* SpecSs    the browser's SocketService: connect() and its promise.       *)
(*                                                                         *)
(* Time is in milliseconds, as Date.getTime() gives it; the clock moves in *)
(* steps of TickMs.                                                        *)
(***************************************************************************)
EXTENDS Integers, Sequences, FiniteSets, TLC

\* ------------------------------------------------------------------ bounds
MaxTicks == 4
MaxSessions == 1
MaxInvites == 1
MaxReq == 2
MaxCap == 2
MaxAnon == 1
\* the longest message, in tokens
MaxMsgLen == 3
MaxCalls == 3
MaxListeners == 3
MaxEvents == 2
MaxTimers == 2
MaxClientTicks == 1
\* requests made through the ApiClient, and answers one request may get
MaxApiReq == 3
MaxAttempts == 2
\* calls of setEmergencyAlert
MaxAlertCalls == 2
\* the abandoned sockets kept track of, and the events the server sends
MaxOrphans == 2
MaxServerEvents == 1
\* calls of updateModerationLevel for a session
MaxLevelChanges == 2
\* calls of checkRateLimit for one key, and the maxRequests they pass
MaxRlCalls == 4
MaxRequests == 2
\* calls of SocketService.connect()
MaxSsCalls == 5

\* ------------------------------------------------------- program constants
MsPerMinute == 60 * 1000
HourMs == 60 * MsPerMinute
TickMs == 5 * MsPerMinute
\* routes line 348: if (timeUntilStart > 15 * 60 * 1000)
JoinWindowMs == 15 * 60 * 1000
\* SanctuaryInvitation.js line 54: maxUses default -1 means unlimited
Unlimited == 0 - 1

NoTime == 0 - 1
Times == {k * TickMs : k \in 0..MaxTicks}

Users == {"u1", "u2", "u3"}
\* req.user.role === 'admin'
Admins == {"u3"}
\* routes line 325: `anonymous_${nanoid(8)}`, a fresh id for each request without a user
AnonNames == <<"anonymous_1", "anonymous_2", "anonymous_3", "anonymous_4",
               "anonymous_5", "anonymous_6", "anonymous_7", "anonymous_8">>
\* the request carries no user (optionalAuthMiddleware)
NoUser == "none"

NoInv == [found |-> FALSE]
NoSession == [found |-> FALSE]
\* GET of a key that was never set
NoValue == << "nil" >>
\* a field the object does not have, and a field that holds the number n
Undefined == << >>
Number(n) == << n >>
NoToken == ""
NoCreateResp == [status |-> 0, id |-> 0, agoraToken |-> NoToken, hostToken |-> NoToken]
\* GET of a session:<sessionId> key that is not set
NoState == [found |-> FALSE]
NoStatusResp == [status |-> 0, sessionId |-> 0, served |-> "none"]

VARIABLES
    now,          \* the clock, ms
    sessions,     \* LiveSanctuarySession collection; the id is the index
    invitations,  \* SanctuaryInvitation collection; the invite code is the index
    acks,         \* SessionAcknowledgment collection, in insertion order
    req,          \* the join-by-code requests in flight
    nextAnon      \* how many anonymous ids nanoid has handed out

lifeVars == <<now, sessions, invitations, acks, req, nextAnon>>

VARIABLES
    geminiEnabled,   \* AIModerationService: GEMINI_API_KEY is set
    redisConnected,  \* RedisService.isConnected
    alerts,          \* the emergency:<sessionId> keys
    published,       \* events published on the session channels
    mod              \* the moderateMessage call in flight

modVars == <<geminiEnabled, redisConnected, alerts, published, mod>>

VARIABLES
    batch,           \* the batchModerate call in flight
    voiceSettings    \* the voice:<sessionId>:<participantId> keys

auxVars == <<batch, voiceSettings>>

VARIABLES
    nextCall,        \* how many calls of the RedisService have been numbered
    participantsKey, \* the session:<sessionId>:participants keys
    clientConn,      \* this.client: commands sent, and replies on their way back
    publisherConn,   \* this.publisher: PUBLISH commands sent
    subscriberUp,    \* this.subscriber is connected
    subscriptions,   \* the channels this.subscriber is subscribed to
    pendingSubs,     \* subscribeToSession calls awaiting their SUBSCRIBE
    listeners,       \* the 'message' listeners of this.subscriber, in order
    cacheLog,        \* history: the writes of the participants keys, in order
    channelLog,      \* history: the events published, in order
    deliveries       \* history: the invocations of the callbacks, in order

busVars == <<nextCall, participantsKey, clientConn, publisherConn, subscriberUp,
             subscriptions, pendingSubs, listeners, cacheLog, channelLog, deliveries>>

VARIABLES
    agoraUp,         \* generateRtcToken returns a token (FALSE: it throws)
    sessionStateKey, \* the session:<sessionId> keys
    createResp,      \* the answer to the last POST /
    statusResp       \* the answer to the last GET /:sessionId/status

cacheVars == <<agoraUp, sessionStateKey, createResp, statusResp>>

VARIABLES
    connectionState,   \* RealTimeService.connectionState
    socket,            \* RealTimeService.socket, and its connected flag
    messageQueue,      \* RealTimeService.messageQueue
    reconnectAttempts, \* RealTimeService.reconnectAttempts
    timers,            \* the setTimeout callbacks of handleReconnection not yet run
    nextEvent,         \* how many events have been passed to emit()
    clientNow,         \* Date.now() in the browser, ms
    sent               \* history: the events handed to socket.emit, in order

rtVars == <<connectionState, socket, messageQueue, reconnectAttempts, timers,
            nextEvent, clientNow, sent>>

VARIABLES
    isRefreshing,    \* ApiClient.isRefreshing
    failedQueue,     \* ApiClient.failedQueue: the requests waiting for the refresh
    apiReq,          \* the requests made through the ApiClient
    refreshToken,    \* tokenManager holds a refresh token
    refreshesInFlight, \* POST /api/auth/refresh-token requests not yet answered
    lastRefresh      \* history: how the last refresh ended

apiVars == <<isRefreshing, failedQueue, apiReq, refreshToken, refreshesInFlight,
             lastRefresh>>

VARIABLES
    emCall,          \* the setEmergencyAlert call in flight
    emLog            \* history: the stores, publishes and returns of the calls

emVars == <<emCall, emLog>>

VARIABLES
    orphans,         \* RealTimeService: the sockets that this.socket no longer
                     \* names and that were never disconnected; TRUE: connected
    received         \* history: how often each server event reached the listeners

sockVars == <<orphans, received>>

VARIABLES
    metricsKey       \* the metrics:<sessionId>:moderation_level_changes keys

metVars == <<metricsKey>>

VARIABLES
    rlKey,           \* the rate-limit key: its counter (0: no key) and its expiry
    rlCalls,         \* the checkRateLimit calls for the key
    rlAllowed        \* history: the calls counted by the key as it is now that
                     \* return true

rlVars == <<rlKey, rlCalls, rlAllowed>>

VARIABLES
    ssSocket,          \* SocketService.socket, and its connected flag
    ssIsConnected,     \* SocketService.isConnected
    connectionPromise, \* SocketService.connectionPromise: null or its state
    ssAttempts,        \* how many sockets SocketService.connect() has created
    ssCalls            \* how many times SocketService.connect() was called

ssVars == <<ssSocket, ssIsConnected, connectionPromise, ssAttempts, ssCalls>>

cliVars == <<apiVars, emVars, sockVars, metVars, rlVars, ssVars>>

\* what an ApiClient step leaves alone
notApi == <<lifeVars, modVars, auxVars, busVars, cacheVars, rtVars, emVars, sockVars,
           metVars, rlVars, ssVars>>
\* what a setEmergencyAlert step leaves alone, next to the moderation variables
notEm == <<lifeVars, auxVars, busVars, cacheVars, rtVars, apiVars, sockVars, metVars,
          rlVars, ssVars>>
\* what a RealTimeService step leaves alone, next to its own variables
notRt == <<lifeVars, modVars, auxVars, busVars, cacheVars, apiVars, emVars, metVars,
          rlVars, ssVars>>
\* what a checkRateLimit step leaves alone
notRl == <<lifeVars, modVars, auxVars, busVars, cacheVars, rtVars, apiVars, emVars,
          sockVars, metVars, ssVars>>
\* what a SocketService step leaves alone
notSs == <<lifeVars, modVars, auxVars, busVars, cacheVars, rtVars, apiVars, emVars,
          sockVars, metVars, rlVars>>

netVars == <<busVars, cacheVars, rtVars, cliVars>>

vars == <<lifeVars, modVars, auxVars, netVars>>

ReqIds == 1..MaxReq
SessionIds == 1..Len(sessions)
Codes == 1..Len(invitations)

NoResp == [kind |-> "none", status |-> 0, timeUntilStart |-> 0]
IdleReq == [pc |-> "idle", code |-> 0, sessionId |-> 0, user |-> NoUser,
            userId |-> NoUser, acknowledged |-> FALSE, inv |-> NoInv,
            sess |-> NoSession, resp |-> NoResp]

Resp(kind, status) == [kind |-> kind, status |-> status, timeUntilStart |-> 0]
\* a request that has been answered: res.success / res.error was called
Done(resp) == [IdleReq EXCEPT !.pc = "done", !.resp = resp]

\* ------------------------------------------------------------ the clock
\* the clock is counted from the creation of the first session
Tick ==
    /\ Len(sessions) > 0
    /\ now + TickMs <= MaxTicks * TickMs
    /\ now' = now + TickMs
    /\ UNCHANGED <<sessions, invitations, acks, req, nextAnon, modVars, auxVars, netVars>>

\* ---------------------------------------------------- session creation
\* routes lines 99-110: an entry of the participant list; the host is a moderator
Participant(id, isHost) ==
    [id |-> id, isHost |-> isHost, isModerator |-> isHost, isMuted |-> FALSE]

\* the token generation without its try and catch: the exception leaves the handler
IssueTokens_NoCatch(up) ==
    IF up THEN [threw |-> FALSE, agoraToken |-> "rtc_token", hostToken |-> "rtc_host_token"]
    ELSE [threw |-> TRUE, agoraToken |-> NoToken, hostToken |-> NoToken]

\* routes lines 70-81: the tokens of generateRtcToken, or the placeholders of the
\* catch when it throws
IssueTokens(up) ==
    IF up THEN [threw |-> FALSE, agoraToken |-> "rtc_token", hostToken |-> "rtc_host_token"]
    ELSE [threw |-> FALSE, agoraToken |-> "temp_token_", hostToken |-> "temp_host_token_"]

\* a scheduled session created with status active
NewSession_ScheduledStartsActive(hostId, scheduledTime, maxParticipants, allowAnonymous) ==
    LET isScheduled == scheduledTime # NoTime IN
    [ found |-> TRUE,
      hostId |-> hostId,
      scheduledAt |-> scheduledTime,
      isActive |-> ~isScheduled,
      status |-> "active",
      participants |-> << Participant(hostId, TRUE) >>,
      maxParticipants |-> maxParticipants,
      currentParticipants |-> IF isScheduled THEN 0 ELSE 1,
      allowAnonymous |-> allowAnonymous,
      startTime |-> IF isScheduled THEN NoTime ELSE now,
      agoraToken |-> IssueTokens(agoraUp).agoraToken,
      hostToken |-> IssueTokens(agoraUp).hostToken,
      endedAt |-> NoTime ]

\* the entry of the host created without the host flag
NewSession_HostNotFlagged(hostId, scheduledTime, maxParticipants, allowAnonymous) ==
    LET isScheduled == scheduledTime # NoTime IN
    [ found |-> TRUE,
      hostId |-> hostId,
      scheduledAt |-> scheduledTime,
      isActive |-> ~isScheduled,
      status |-> IF isScheduled THEN "scheduled" ELSE "active",
      participants |-> << Participant(hostId, FALSE) >>,
      maxParticipants |-> maxParticipants,
      currentParticipants |-> IF isScheduled THEN 0 ELSE 1,
      allowAnonymous |-> allowAnonymous,
      startTime |-> IF isScheduled THEN NoTime ELSE now,
      agoraToken |-> IssueTokens(agoraUp).agoraToken,
      hostToken |-> IssueTokens(agoraUp).hostToken,
      endedAt |-> NoTime ]

\* routes lines 84-128
NewSession(hostId, scheduledTime, maxParticipants, allowAnonymous) ==
    LET isScheduled == scheduledTime # NoTime IN
    [ found |-> TRUE,
      hostId |-> hostId,
      scheduledAt |-> scheduledTime,
      isActive |-> ~isScheduled,
      status |-> IF isScheduled THEN "scheduled" ELSE "active",
      participants |-> << Participant(hostId, TRUE) >>,
      maxParticipants |-> maxParticipants,
      currentParticipants |-> IF isScheduled THEN 0 ELSE 1,
      allowAnonymous |-> allowAnonymous,
      startTime |-> IF isScheduled THEN NoTime ELSE now,
      agoraToken |-> IssueTokens(agoraUp).agoraToken,
      hostToken |-> IssueTokens(agoraUp).hostToken,
      endedAt |-> NoTime ]

\* Date.prototype.toISOString, and new Date(string) of such a string
ToISOString(t) == << "iso", t >>
FromISOString(str) == str[2]

\* routes lines 132-144: the object written to the session:<sessionId> key; the
\* fields the status endpoint reads that the object does not have are Undefined
CachedState(session) ==
    [ found |-> TRUE,
      status |-> session.status,
      isScheduled |-> session.scheduledAt # NoTime,
      scheduledDateTime |-> IF session.scheduledAt = NoTime THEN Undefined
                            ELSE ToISOString(session.scheduledAt),
      currentParticipants |-> Undefined,
      maxParticipants |-> Undefined ]

\* router.post('/'), lines 15-211; scheduledDateTime = NoTime is a request without one
CreateSession(u, scheduledDateTime, maxParticipants, allowAnonymous) ==
    /\ Len(sessions) < MaxSessions
    /\ LET session == NewSession(u, scheduledDateTime, maxParticipants, allowAnonymous)
           sessionId == Len(sessions) + 1
       IN IF scheduledDateTime # NoTime /\ scheduledDateTime <= now
            THEN /\ createResp' = [NoCreateResp EXCEPT !.status = 400]
                 /\ UNCHANGED <<sessions, sessionStateKey>>
          ELSE IF IssueTokens(agoraUp).threw
            THEN /\ createResp' = [NoCreateResp EXCEPT !.status = 500]
                 /\ UNCHANGED <<sessions, sessionStateKey>>
          ELSE /\ sessions' = Append(sessions, session)
               /\ sessionStateKey' =
                     IF redisConnected
                       THEN [sessionStateKey EXCEPT ![sessionId] = CachedState(session)]
                       ELSE sessionStateKey
               /\ createResp' = [status |-> 200, id |-> sessionId,
                                 agoraToken |-> session.agoraToken,
                                 hostToken |-> session.hostToken]
    /\ UNCHANGED <<now, invitations, acks, req, nextAnon, modVars, auxVars, busVars,
                   rtVars, cliVars, agoraUp, statusResp>>

\* LiveSanctuarySession.findOne({ id })
FindSession(sid) == IF sid \in SessionIds THEN sessions[sid] ELSE NoSession

\* ------------------------------------------------- invitation creation
\* router.post('/:sessionId/invite'): the invitation document of lines 251-278
NewInvitation(sid, u, maxUses, expiryHours, autoJoin) ==
    [ found |-> TRUE,
      sessionId |-> sid,
      createdBy |-> u,
      maxUses |-> maxUses,
      currentUses |-> 0,
      usageLog |-> << >>,
      oneTimeUse |-> (maxUses = 1),
      blockedUsers |-> {},
      autoJoin |-> autoJoin,
      requireAcknowledgment |-> ~autoJoin,
      isActive |-> TRUE,
      expiresAt |-> now + expiryHours * HourMs ]

\* every requester may create invitations
MayInvite_Anyone(session, u) == TRUE

\* routes line 231: the host of the session, or an administrator
MayInvite(session, u) == session.hostId = u \/ u \in Admins

\* router.post('/:sessionId/invite'), lines 214-305
CreateInvitation(u, sid, maxUses, expiryHours, autoJoin) ==
    /\ Len(invitations) < MaxInvites
    /\ LET session == FindSession(sid) IN
       IF ~session.found
         THEN UNCHANGED invitations
         ELSE IF ~MayInvite(session, u)
           THEN UNCHANGED invitations
           ELSE invitations' = Append(invitations,
                    NewInvitation(sid, u, maxUses, expiryHours, autoJoin))
    /\ UNCHANGED <<now, sessions, acks, req, nextAnon, modVars, auxVars, netVars>>

\* ------------------------------------------------ the invitation model
\* SanctuaryInvitation.findByInviteCode: the code is looked up; an invitation that is
\* missing, inactive or past expiresAt is not found
findByInviteCode(code) ==
    IF /\ code \in Codes
       /\ invitations[code].isActive
       /\ ~(now > invitations[code].expiresAt)
      THEN invitations[code]
      ELSE NoInv

\* invitation.canBeUsed(userInfo).allowed
canBeUsed(inv, userId) ==
    /\ (inv.maxUses >= 0 => inv.currentUses < inv.maxUses)
    /\ (inv.oneTimeUse => inv.currentUses = 0)
    /\ userId \notin inv.blockedUsers

\* invitation.incrementUsage(userInfo): one more use, one more usageLog entry; an
\* invitation that has reached maxUses is from then on an invalid code
incrementUsage(inv, userId) ==
    [inv EXCEPT
        !.currentUses = @ + 1,
        !.usageLog = Append(@, [userId |-> userId]),
        !.isActive = IF inv.maxUses >= 0 /\ inv.currentUses + 1 >= inv.maxUses
                       THEN FALSE ELSE @]

\* ------------------------------------------------ the join-by-code route
\* the window compared with >= : a join exactly 15 minutes early is turned away
ScheduledTooEarly_AtWindow(session, t) ==
    /\ session.status = "scheduled"
    /\ session.scheduledAt # NoTime
    /\ session.scheduledAt - t >= JoinWindowMs

\* routes lines 343-348: the session is scheduled and starts more than 15 minutes from t
ScheduledTooEarly(session, t) ==
    /\ session.status = "scheduled"
    /\ session.scheduledAt # NoTime
    /\ session.scheduledAt - t > JoinWindowMs

\* routes line 366
NeedsAcknowledgment(inv, acknowledged) ==
    inv.requireAcknowledgment /\ ~acknowledged

\* routes lines 392-426: new SessionAcknowledgment({...})
NewAcknowledgment(sid, code, userId, isAnonymous, acknowledged) ==
    [ sessionId |-> sid,
      invitationId |-> code,
      userId |-> userId,
      isAnonymous |-> isAnonymous,
      acknowledgmentType |-> "invitation_link",
      participationConsent |-> acknowledged ]

\* the compound index without { unique: true }
DuplicateKey_NotUnique(doc) == FALSE

\* SanctuaryInvitation.js line 236: index({ sessionId: 1, userId: 1 }, { unique: true });
\* TRUE when saving doc would be a duplicate key
DuplicateKey(doc) ==
    \E i \in 1..Len(acks) :
        acks[i].sessionId = doc.sessionId /\ acks[i].userId = doc.userId

\* anonymous requests that have not drawn their id yet
PendingAnon == Cardinality({r \in ReqIds : req[r].pc = "lookedUp" /\ req[r].user = NoUser})

\* lines 308-319: the request arrives and the invitation is read
JoinStart(r, code, user, acknowledged) ==
    /\ req[r].pc \in {"idle", "done"}
    /\ \A q \in 1..(r - 1) : req[q].pc \notin {"idle", "done"}
    /\ user = NoUser => nextAnon + PendingAnon < MaxAnon
    /\ req' = [req EXCEPT ![r] =
            [IdleReq EXCEPT !.pc = "lookedUp", !.code = code, !.user = user,
                            !.acknowledged = acknowledged,
                            !.inv = findByInviteCode(code)]]
    /\ UNCHANGED <<now, sessions, invitations, acks, nextAnon, modVars, auxVars, netVars>>

\* the null check of line 320 left out: reading the missing document throws, and
\* line 466 answers
CheckOutcome_NoNullCheck(inv, userId) ==
    IF ~inv.found THEN Resp("failed", 500)
    ELSE IF ~canBeUsed(inv, userId) THEN Resp("not_allowed", 400)
    ELSE Resp("proceed", 0)

\* a failed lookup answered like a refused use
CheckOutcome_NotFoundAs400(inv, userId) ==
    IF ~inv.found THEN Resp("not_allowed", 400)
    ELSE IF ~canBeUsed(inv, userId) THEN Resp("not_allowed", 400)
    ELSE Resp("proceed", 0)

\* lines 320-335: the answer to a failed lookup or a refused use; "proceed" otherwise
CheckOutcome(inv, userId) ==
    IF ~inv.found THEN Resp("invalid_code", 404)
    ELSE IF ~canBeUsed(inv, userId) THEN Resp("not_allowed", 400)
    ELSE Resp("proceed", 0)

\* lines 320-337: the lookup result, userInfo, canBeUsed, and the session is read
JoinCheck(r) ==
    /\ req[r].pc = "lookedUp"
    /\ LET isAnon == req[r].user = NoUser
           drawsId == req[r].inv.found /\ isAnon
           userId == IF drawsId THEN AnonNames[nextAnon + 1] ELSE req[r].user
           outcome == CheckOutcome(req[r].inv, userId)
       IN /\ nextAnon' = IF drawsId THEN nextAnon + 1 ELSE nextAnon
          /\ IF outcome.kind # "proceed"
               THEN req' = [req EXCEPT ![r] = Done(outcome)]
               ELSE req' = [req EXCEPT ![r].pc = "gotSession", ![r].userId = userId,
                                       ![r].sess = FindSession(req[r].inv.sessionId)]
    /\ UNCHANGED <<now, sessions, invitations, acks, modVars, auxVars, netVars>>

\* lines 338-389 and the exception of line 428: what the route answers before it
\* records anything; "proceed" when the acknowledgment is saved
DecideOutcome(session, inv, acknowledged, doc, t) ==
    IF ~session.found THEN Resp("session_not_found", 404)
    ELSE IF ScheduledTooEarly(session, t)
      THEN [kind |-> "scheduled", status |-> 200,
            timeUntilStart |-> session.scheduledAt - t]
    ELSE IF NeedsAcknowledgment(inv, acknowledged)
      THEN Resp("requires_acknowledgment", 200)
    ELSE IF DuplicateKey(doc) THEN Resp("failed", 500)
    ELSE Resp("proceed", 0)

\* the acknowledgment saved before the acknowledgment check returns
AcksAfter_SavedEarly(outcome, doc) ==
    IF outcome.kind \in {"proceed", "requires_acknowledgment"}
      THEN Append(acks, doc) ELSE acks

\* line 428: acknowledgment.save() comes after every early return
AcksAfter(outcome, doc) ==
    IF outcome.kind = "proceed" THEN Append(acks, doc) ELSE acks

\* lines 338-428
JoinDecide(r) ==
    /\ req[r].pc = "gotSession"
    /\ LET doc == NewAcknowledgment(req[r].inv.sessionId, req[r].code, req[r].userId,
                                    req[r].user = NoUser, req[r].acknowledged)
           outcome == DecideOutcome(req[r].sess, req[r].inv, req[r].acknowledged, doc, now)
       IN /\ acks' = AcksAfter(outcome, doc)
          /\ IF outcome.kind # "proceed"
               THEN req' = [req EXCEPT ![r] = Done(outcome)]
               ELSE req' = [req EXCEPT ![r].pc = "ackSaved"]
    /\ UNCHANGED <<now, sessions, invitations, nextAnon, modVars, auxVars, netVars>>

\* lines 430-462: invitation.incrementUsage and the "acknowledged" response
JoinIncrement(r) ==
    /\ req[r].pc = "ackSaved"
    /\ invitations' = [invitations EXCEPT ![req[r].code] =
            incrementUsage(@, req[r].userId)]
    /\ req' = [req EXCEPT ![r] = Done(Resp("acknowledged", 200))]
    /\ UNCHANGED <<now, sessions, acks, nextAnon, modVars, auxVars, netVars>>

\* --------------------------------------- direct join and end (design 4.1)
IsParticipant(session, userId) ==
    \E i \in 1..Len(session.participants) : session.participants[i].id = userId

\* rule (a) without the ended case
DirectJoinOutcome_EndedJoinable(session, isAnon) ==
    IF ~session.found THEN "NotFound"
    ELSE IF ScheduledTooEarly(session, now) THEN "scheduled"
    ELSE IF Len(session.participants) >= session.maxParticipants THEN "CapacityExceeded"
    ELSE IF isAnon /\ ~session.allowAnonymous THEN "AnonymousNotAllowed"
    ELSE "admitted"

\* Join rules (a)-(e), in order
DirectJoinOutcome(session, isAnon) ==
    IF ~session.found \/ session.status = "ended" THEN "NotFound"
    ELSE IF ScheduledTooEarly(session, now) THEN "scheduled"
    ELSE IF Len(session.participants) >= session.maxParticipants THEN "CapacityExceeded"
    ELSE IF isAnon /\ ~session.allowAnonymous THEN "AnonymousNotAllowed"
    ELSE "admitted"

\* rule (e): the participant is appended, the counter incremented, and the first
\* admission of a scheduled session starts it
Admit(session, userId) ==
    [session EXCEPT
        !.participants = Append(@, Participant(userId, FALSE)),
        !.currentParticipants = @ + 1,
        !.status = "active",
        !.isActive = TRUE,
        !.startTime = IF session.status = "scheduled" THEN now ELSE @]

DirectJoin(sid, user) ==
    /\ user = NoUser => nextAnon + PendingAnon < MaxAnon
    /\ LET session == FindSession(sid)
           isAnon == user = NoUser
           userId == IF isAnon THEN AnonNames[nextAnon + 1] ELSE user
           outcome == DirectJoinOutcome(session, isAnon)
       IN /\ session.found => ~IsParticipant(session, userId)
          /\ IF outcome = "admitted"
               THEN /\ sessions' = [sessions EXCEPT ![sid] = Admit(session, userId)]
                    /\ nextAnon' = IF isAnon THEN nextAnon + 1 ELSE nextAnon
               ELSE UNCHANGED <<sessions, nextAnon>>
    /\ UNCHANGED <<now, invitations, acks, req, modVars, auxVars, netVars>>

\* End operation: host or administrative role; the state machine has the one edge
\* active -> ended into ended
EndOutcome(session, u) ==
    IF ~session.found THEN "NotFound"
    ELSE IF session.hostId # u /\ u \notin Admins THEN "Forbidden"
    ELSE IF session.status # "active" THEN "NotActive"
    ELSE "ended"

EndSession(sid, u) ==
    /\ LET session == FindSession(sid)
           outcome == EndOutcome(session, u)
       IN IF outcome = "ended"
            THEN sessions' = [sessions EXCEPT ![sid] =
                     [session EXCEPT !.status = "ended", !.isActive = FALSE,
                                     !.endedAt = now]]
            ELSE UNCHANGED sessions
    /\ UNCHANGED <<now, invitations, acks, req, nextAnon, modVars, auxVars, netVars>>

\* ------------------------- leave, kick, mute, promote (design 3 and 4.1)
\* the participant list without the entries of userId
Without(participants, userId) ==
    LET Others(p) == p.id # userId IN SelectSeq(participants, Others)

EntryOf(session, userId) ==
    session.participants[CHOOSE i \in 1..Len(session.participants) :
                            session.participants[i].id = userId]

IsHostOrModerator(session, u) ==
    IsParticipant(session, u) /\ (EntryOf(session, u).isHost \/ EntryOf(session, u).isModerator)

\* a participant other than the host leaves an active session
LeaveSession(sid, u) ==
    /\ LET session == FindSession(sid)
       IN IF /\ session.found
             /\ session.status = "active"
             /\ IsParticipant(session, u)
             /\ ~EntryOf(session, u).isHost
            THEN sessions' = [sessions EXCEPT ![sid] =
                     [session EXCEPT !.participants = Without(@, u),
                                     !.currentParticipants = @ - 1]]
            ELSE UNCHANGED sessions
    /\ UNCHANGED <<now, invitations, acks, req, nextAnon, modVars, auxVars, netVars>>

\* the host or a moderator removes a participant other than the host
KickParticipant(sid, by, target) ==
    /\ LET session == FindSession(sid)
       IN IF /\ session.found
             /\ session.status = "active"
             /\ IsHostOrModerator(session, by)
             /\ IsParticipant(session, target)
             /\ ~EntryOf(session, target).isHost
            THEN sessions' = [sessions EXCEPT ![sid] =
                     [session EXCEPT !.participants = Without(@, target),
                                     !.currentParticipants = @ - 1]]
            ELSE UNCHANGED sessions
    /\ UNCHANGED <<now, invitations, acks, req, nextAnon, modVars, auxVars, netVars>>

\* the entries of userId with one flag set
WithFlag(participants, userId, flag) ==
    [i \in 1..Len(participants) |->
        IF participants[i].id = userId
          THEN [participants[i] EXCEPT ![flag] = TRUE]
          ELSE participants[i]]

\* the host or a moderator mutes a participant
MuteParticipant(sid, by, target) ==
    /\ LET session == FindSession(sid)
       IN IF /\ session.found
             /\ session.status = "active"
             /\ IsHostOrModerator(session, by)
             /\ IsParticipant(session, target)
            THEN sessions' = [sessions EXCEPT ![sid] =
                     [session EXCEPT !.participants = WithFlag(@, target, "isMuted")]]
            ELSE UNCHANGED sessions
    /\ UNCHANGED <<now, invitations, acks, req, nextAnon, modVars, auxVars, netVars>>

\* the host promotes a participant to moderator
PromoteParticipant(sid, by, target) ==
    /\ LET session == FindSession(sid)
       IN IF /\ session.found
             /\ session.status = "active"
             /\ session.hostId = by
             /\ IsParticipant(session, target)
            THEN sessions' = [sessions EXCEPT ![sid] =
                     [session EXCEPT !.participants = WithFlag(@, target, "isModerator")]]
            ELSE UNCHANGED sessions
    /\ UNCHANGED <<now, invitations, acks, req, nextAnon, modVars, auxVars, netVars>>

\* ------------------------------------------------------------ moderation
\* A message is a sequence of tokens; a token stands for the run of characters it
\* names.  CapsTok is 21 capital letters, RunTok one letter eleven times, LongTok 1001
\* characters of lower-case prose; none of the three holds a keyword or part of one.
CapsTok == "SHOUTING_21"
RunTok == "aaaaaaaaaaa"
LongTok == "prose_1001"
Tokens == {"SUICIDE", "kill", " ", "myself", "can't", "handle", CapsTok, RunTok, LongTok}

RECURSIVE SeqsUpTo(_, _)
SeqsUpTo(S, n) ==
    IF n = 0 THEN {<< >>}
    ELSE LET shorter == SeqsUpTo(S, n - 1)
         IN shorter \cup {Append(m, t) : m \in {x \in shorter : Len(x) = n - 1}, t \in S}

Messages == SeqsUpTo(Tokens, MaxMsgLen)
ModerationLevels == {"low", "medium", "high", "strict"}
ModSessionIds == {"s1"}
ParticipantIds == {"p1", "p2"}

\* String.prototype.length of a token
TokLen(tok) ==
    CASE tok \in {"suicide", "SUICIDE"} -> 7
      [] tok \in {"kill", "KILL"} -> 4
      [] tok \in {" ", "!"} -> 1
      [] tok \in {"myself", "MYSELF", "handle", "HANDLE"} -> 6
      [] tok \in {"can't", "CAN'T"} -> 5
      [] tok = "cant" -> 4
      [] tok \in {CapsTok, "shouting_21"} -> 21
      [] tok \in {RunTok, "AAAAAAAAAAA"} -> 11
      [] tok \in {LongTok, "PROSE_1001"} -> 1001
      [] OTHER -> 0

RECURSIVE ContentLength(_)
ContentLength(content) ==
    IF content = << >> THEN 0
    ELSE TokLen(Head(content)) + ContentLength(Tail(content))

TokLower(tok) ==
    CASE tok = "SUICIDE" -> "suicide"
      [] tok = "KILL" -> "kill"
      [] tok = "MYSELF" -> "myself"
      [] tok = "CAN'T" -> "can't"
      [] tok = "HANDLE" -> "handle"
      [] tok = CapsTok -> "shouting_21"
      [] tok = "AAAAAAAAAAA" -> RunTok
      [] tok = "PROSE_1001" -> LongTok
      [] OTHER -> tok

TokUpper(tok) ==
    CASE tok = "suicide" -> "SUICIDE"
      [] tok = "kill" -> "KILL"
      [] tok = "myself" -> "MYSELF"
      [] tok \in {"can't", "cant"} -> "CAN'T"
      [] tok = "handle" -> "HANDLE"
      [] tok = "shouting_21" -> CapsTok
      [] tok = RunTok -> "AAAAAAAAAAA"
      [] tok = LongTok -> "PROSE_1001"
      [] OTHER -> tok

\* replace(/[^\w\s]/g, '') on a token: the characters that are neither word characters
\* nor white space are dropped; a token of nothing else becomes the empty string
TokStrip(tok) ==
    CASE tok = "!" -> ""
      [] tok = "can't" -> "cant"
      [] tok = "CAN'T" -> "CANT"
      [] OTHER -> tok

toLowerCase(content) == [i \in 1..Len(content) |-> TokLower(content[i])]
toUpperCase(content) == [i \in 1..Len(content) |-> TokUpper(content[i])]
NotEmpty(tok) == tok # ""
StripPunctuation(content) ==
    SelectSeq([i \in 1..Len(content) |-> TokStrip(content[i])], NotEmpty)

\* String.prototype.includes
Includes(content, part) ==
    \E i \in 0..(Len(content) - Len(part)) :
        SubSeq(content, i + 1, i + Len(part)) = part

\* routes lines 610-614: two of the configured keywords, in the order of the list
emergencyKeywords == << <<"suicide">>, <<"kill", " ", "myself">> >>
KeywordText(k) == IF k = 1 THEN "suicide" ELSE "kill myself"

\* routes line 621: /(?:can't|cannot).{0,10}(?:go on|take it|handle)/i, one of the
\* configured patterns: "can't", at most ten characters, "handle", in any letter case
MatchesCrisisPattern(content) ==
    \E i \in 1..Len(content), j \in 1..Len(content) :
        /\ i < j
        /\ TokLower(content[i]) = "can't"
        /\ TokLower(content[j]) = "handle"
        /\ ContentLength(SubSeq(content, i + 1, j - 1)) <= 10

NotEmergency == [isEmergency |-> FALSE, reason |-> "", confidence |-> 0]

\* the crisis patterns tested on the stripped lower-case text instead of the message
checkEmergencyContent_PatternsOnStripped(content) ==
    LET lowerContent == StripPunctuation(toLowerCase(content))
        hits == {k \in 1..Len(emergencyKeywords) :
                    Includes(lowerContent, toLowerCase(emergencyKeywords[k]))}
    IN IF hits # {}
         THEN [isEmergency |-> TRUE,
               reason |-> "Emergency keyword detected: " \o
                          KeywordText(CHOOSE k \in hits : \A h \in hits : k <= h),
               confidence |-> 9]
       ELSE IF MatchesCrisisPattern(lowerContent)
         THEN [isEmergency |-> TRUE, reason |-> "Crisis language pattern detected",
               confidence |-> 8]
       ELSE NotEmergency

\* routes lines 709-735; confidence in tenths
checkEmergencyContent(content) ==
    LET lowerContent == StripPunctuation(toLowerCase(content))
        hits == {k \in 1..Len(emergencyKeywords) :
                    Includes(lowerContent, toLowerCase(emergencyKeywords[k]))}
    IN IF hits # {}
         THEN [isEmergency |-> TRUE,
               reason |-> "Emergency keyword detected: " \o
                          KeywordText(CHOOSE k \in hits : \A h \in hits : k <= h),
               confidence |-> 9]
       ELSE IF MatchesCrisisPattern(content)
         THEN [isEmergency |-> TRUE, reason |-> "Crisis language pattern detected",
               confidence |-> 8]
       ELSE NotEmergency

NotFlagged == [flagged |-> FALSE, action |-> "none", severity |-> "low", reason |-> ""]

\* /(.)\1{10,}/: one character eleven times or more in a row
HasRepeatedRun(content) == \E i \in 1..Len(content) : content[i] \in {RunTok, "AAAAAAAAAAA"}

\* routes lines 737-771
basicContentFilter(content) ==
    IF ContentLength(content) > 1000
      THEN [flagged |-> TRUE, action |-> "warning", severity |-> "medium",
            reason |-> "Message too long (spam protection)"]
    ELSE IF HasRepeatedRun(content)
      THEN [flagged |-> TRUE, action |-> "warning", severity |-> "medium",
            reason |-> "Excessive repeated characters"]
    ELSE IF ContentLength(content) > 20 /\ content = toUpperCase(content)
      THEN [flagged |-> TRUE, action |-> "warning", severity |-> "low",
            reason |-> "Excessive use of capital letters"]
    ELSE NotFlagged

\* the table with the rows of high and strict exchanged
thresholds_StrictAboveHigh ==
    [low    |-> [toxicity |-> 8, selfHarm |-> 7, harassment |-> 8],
     medium |-> [toxicity |-> 6, selfHarm |-> 5, harassment |-> 6],
     high   |-> [toxicity |-> 2, selfHarm |-> 1, harassment |-> 2],
     strict |-> [toxicity |-> 4, selfHarm |-> 3, harassment |-> 4]]

\* routes lines 602-607, in tenths
thresholds ==
    [low    |-> [toxicity |-> 8, selfHarm |-> 7, harassment |-> 8],
     medium |-> [toxicity |-> 6, selfHarm |-> 5, harassment |-> 6],
     high   |-> [toxicity |-> 4, selfHarm |-> 3, harassment |-> 4],
     strict |-> [toxicity |-> 2, selfHarm |-> 1, harassment |-> 2]]

\* routes lines 820-849: the thresholds of the level applied to the scores of the
\* analysis, in tenths
GeminiDecision(analysis, moderationLevel) ==
    LET threshold == IF moderationLevel \in DOMAIN thresholds
                       THEN thresholds[moderationLevel] ELSE thresholds.medium
    IN IF analysis.selfHarm >= threshold.selfHarm
         THEN [action |-> "emergency_alert", severity |-> "critical"]
       ELSE IF \/ analysis.toxicity >= threshold.toxicity
               \/ analysis.inappropriate >= threshold.harassment
         THEN IF analysis.toxicity >= 8 THEN [action |-> "kick", severity |-> "high"]
              ELSE IF analysis.toxicity >= 6 THEN [action |-> "mute", severity |-> "medium"]
              ELSE [action |-> "warning", severity |-> "low"]
       ELSE IF analysis.spam >= 7 THEN [action |-> "warning", severity |-> "low"]
       ELSE [action |-> "none", severity |-> "low"]

\* the analyses the deep analyzer answers with
Analysis(toxicity, selfHarm, inappropriate, spam) ==
    [toxicity |-> toxicity, selfHarm |-> selfHarm, inappropriate |-> inappropriate,
     spam |-> spam]
AnalysisChoices == {Analysis(0, 0, 0, 0), Analysis(0, 6, 0, 0), Analysis(7, 0, 0, 0),
                    Analysis(0, 0, 0, 9)}

NoAlert == [status |-> "none"]
NoResult == [isEmergency |-> FALSE, action |-> "", severity |-> "", reason |-> ""]
NoAnalysis == Analysis(0, 0, 0, 0)
\* stages: the stages the call has invoked so far, in order; details: the analysis the
\* deep analyzer answered with; contentType, requestedLevel: a voice transcript and the
\* level its caller asked for
IdleMod == [pc |-> "idle", content |-> << >>, sessionId |-> "", participantId |-> "",
            moderationLevel |-> "", emergencyResult |-> NotEmergency, result |-> NoResult,
            stages |-> << >>, details |-> NoAnalysis, contentType |-> "text",
            requestedLevel |-> ""]

\* a message content that is not a string (undefined, null, a number): toLowerCase at
\* routes line 710 throws a TypeError on it
NotAString == <<"undefined">>
ThrowsTypeError(content) == content = NotAString

Result(isEmergency, action, severity, reason) ==
    [isEmergency |-> isEmergency, action |-> action, severity |-> severity,
     reason |-> reason]

\* routes lines 642-648 and 695-700: the decision of a message the crisis check matched
EmergencyResult(emergencyResult) ==
    Result(TRUE, "emergency_alert", "critical", emergencyResult.reason)

\* routes lines 867-877, without the message excerpt and the timestamp
AlertData(sessionId, participantId, emergencyResult) ==
    [sessionId |-> sessionId, participantId |-> participantId,
     alertType |-> "self_harm_risk", reason |-> emergencyResult.reason,
     confidence |-> emergencyResult.confidence, status |-> "active",
     interventionRequired |-> TRUE]

\* the basic filter consulted before the crisis check
DecidingStage_HeuristicsFirst(emergencyResult, basicResult, enabled) ==
    IF basicResult.flagged THEN "basic"
    ELSE IF emergencyResult.isEmergency THEN "tier1"
    ELSE IF enabled THEN "gemini"
    ELSE "fallback"

\* routes lines 639-681: the stage that decides the call, the first that flags
DecidingStage(emergencyResult, basicResult, enabled) ==
    IF emergencyResult.isEmergency THEN "tier1"
    ELSE IF basicResult.flagged THEN "basic"
    ELSE IF enabled THEN "gemini"
    ELSE "fallback"

\* the stages invoked when the given stage decides
StagesUpTo(stage) ==
    CASE stage = "tier1" -> <<"tier1">>
      [] stage = "gemini" -> <<"tier1", "basic", "gemini">>
      [] OTHER -> <<"tier1", "basic">>

\* routes lines 635-706 up to the first await: the crisis check, the basic filter, then
\* the deep analyzer when it is configured.  On a content that is not a string the
\* crisis check throws, the catch runs it again, and the call rejects
StartCall(messageContent, sessionId, participantId, moderationLevel) ==
    LET call == [IdleMod EXCEPT !.content = messageContent, !.sessionId = sessionId,
                                !.participantId = participantId,
                                !.moderationLevel = moderationLevel,
                                !.requestedLevel = moderationLevel]
    IN IF ThrowsTypeError(messageContent)
         THEN [call EXCEPT !.pc = "threw", !.stages = <<"tier1", "tier1">>]
       ELSE
         LET emergencyResult == checkEmergencyContent(messageContent)
             basicResult == basicContentFilter(messageContent)
             stage == DecidingStage(emergencyResult, basicResult, geminiEnabled)
             started == [call EXCEPT !.stages = StagesUpTo(stage)]
         IN CASE stage = "tier1" ->
                   [started EXCEPT !.pc = "handle", !.emergencyResult = emergencyResult]
              [] stage = "basic" ->
                   [started EXCEPT !.pc = "done",
                       !.result = Result(FALSE, basicResult.action, basicResult.severity,
                                         basicResult.reason)]
              [] stage = "gemini" -> [started EXCEPT !.pc = "gemini"]
              [] OTHER ->
                   [started EXCEPT !.pc = "done",
                       !.result = Result(FALSE, "none", "low", "Content appears safe")]

\* routes line 635: moderateMessage is called
ModStart(messageContent, sessionId, participantId, moderationLevel) ==
    /\ mod.pc = "idle"
    /\ mod' = StartCall(messageContent, sessionId, participantId, moderationLevel)
    /\ UNCHANGED <<geminiEnabled, redisConnected, alerts, published, lifeVars, auxVars, netVars>>

\* the transcript moderated at the level it was asked at
adjustModerationLevel_Unchanged(originalLevel, contentType) == originalLevel

\* routes lines 897-909
adjustModerationLevel(originalLevel, contentType) ==
    IF contentType = "voice"
      THEN CASE originalLevel = "strict" -> "high"
             [] originalLevel = "high" -> "medium"
             [] originalLevel = "medium" -> "low"
             [] originalLevel = "low" -> "low"
             [] OTHER -> "medium"
      ELSE originalLevel

\* routes lines 891-895: moderateVoiceTranscript
ModStartVoice(transcript, sessionId, participantId, moderationLevel) ==
    /\ mod.pc = "idle"
    /\ LET adjustedLevel == adjustModerationLevel(moderationLevel, "voice")
       IN mod' = [StartCall(transcript, sessionId, participantId, adjustedLevel)
                     EXCEPT !.contentType = "voice", !.requestedLevel = moderationLevel]
    /\ UNCHANGED <<geminiEnabled, redisConnected, alerts, published, lifeVars, auxVars, netVars>>

\* routes lines 858-889 with redisService lines 319-325: the alert is written under
\* emergency:<sessionId> when the client is connected; otherwise setEmergencyAlert
\* answers false, which handleEmergencyContent does not read
ModSetex ==
    /\ mod.pc = "handle"
    /\ IF redisConnected
         THEN /\ alerts' = [alerts EXCEPT ![mod.sessionId] =
                     AlertData(mod.sessionId, mod.participantId, mod.emergencyResult)]
              /\ mod' = [mod EXCEPT !.pc = "publish"]
         ELSE /\ mod' = [mod EXCEPT !.pc = "done",
                                    !.result = EmergencyResult(mod.emergencyResult)]
              /\ UNCHANGED alerts
    /\ UNCHANGED <<geminiEnabled, redisConnected, published, lifeVars, auxVars, netVars>>

\* redisService lines 329-332: client.setex rejects; the catch answers false
ModSetexFail ==
    /\ mod.pc = "handle"
    /\ redisConnected
    /\ mod' = [mod EXCEPT !.pc = "done", !.result = EmergencyResult(mod.emergencyResult)]
    /\ UNCHANGED <<geminiEnabled, redisConnected, alerts, published, lifeVars, auxVars, netVars>>

\* redisService lines 201-218 called from line 327, then routes lines 642-648
ModPublish ==
    /\ mod.pc = "publish"
    /\ published' =
         IF redisConnected
           THEN published \cup {[sessionId |-> mod.sessionId, type |-> "emergency_alert",
                                 data |-> alerts[mod.sessionId]]}
           ELSE published
    /\ mod' = [mod EXCEPT !.pc = "done", !.result = EmergencyResult(mod.emergencyResult)]
    /\ UNCHANGED <<geminiEnabled, redisConnected, alerts, lifeVars, auxVars, netVars>>

\* routes lines 663-670: the deep analyzer answers
ModGemini(analysis) ==
    /\ mod.pc = "gemini"
    /\ LET aiResult == GeminiDecision(analysis, mod.moderationLevel)
       IN mod' = [mod EXCEPT !.pc = "done", !.details = analysis,
                     !.result = Result(FALSE, aiResult.action, aiResult.severity,
                                       "AI analysis")]
    /\ UNCHANGED <<geminiEnabled, redisConnected, alerts, published, lifeVars, auxVars, netVars>>

\* the catch answering with a block
UnavailableResult_Blocked == Result(FALSE, "kick", "high", "Moderation service unavailable")

\* routes lines 700-706: the decision of the catch for a content without a crisis match
UnavailableResult ==
    Result(FALSE, "none", "low", "Moderation service unavailable, content allowed")

\* routes lines 682-706: the deep analyzer throws; the catch runs the crisis check again
ModGeminiFail ==
    /\ mod.pc = "gemini"
    /\ LET emergencyResult == checkEmergencyContent(mod.content)
       IN mod' =
            IF emergencyResult.isEmergency
              THEN [mod EXCEPT !.pc = "handle", !.emergencyResult = emergencyResult,
                               !.stages = Append(@, "tier1")]
              ELSE [mod EXCEPT !.pc = "done", !.stages = Append(@, "tier1"),
                       !.result = UnavailableResult]
    /\ UNCHANGED <<geminiEnabled, redisConnected, alerts, published, lifeVars, auxVars, netVars>>

\* the caller takes the decision
ModReturn ==
    /\ mod.pc \in {"done", "threw"}
    /\ mod' = IdleMod
    /\ UNCHANGED <<geminiEnabled, redisConnected, alerts, published, lifeVars, auxVars, netVars>>

\* redisService lines 90-93: the client's 'connect' event
RedisConnect ==
    /\ ~redisConnected
    /\ redisConnected' = TRUE
    /\ UNCHANGED <<geminiEnabled, alerts, published, mod, lifeVars, auxVars, netVars>>

\* redisService lines 95-103: the client's 'error' and 'close' events
RedisDisconnect ==
    /\ redisConnected
    /\ redisConnected' = FALSE
    /\ UNCHANGED <<geminiEnabled, alerts, published, mod, lifeVars, auxVars, netVars>>

\* redisService line 325: the key expires an hour after it was written, long after the
\* call that wrote it has returned
AlertExpire(sessionId) ==
    /\ mod.pc = "idle"
    /\ alerts[sessionId] # NoAlert
    /\ alerts' = [alerts EXCEPT ![sessionId] = NoAlert]
    /\ UNCHANGED <<geminiEnabled, redisConnected, published, mod, lifeVars, auxVars, netVars>>

\* ------------------------------------------------------------ batchModerate
NoBatch == [active |-> FALSE, sessionId |-> "", moderationLevel |-> "",
            messages |-> << >>, results |-> << >>]

\* routes lines 956-958: batchModerate is called with the messages to moderate
BatchStart(messages, sessionId, moderationLevel) ==
    /\ ~batch.active
    /\ mod.pc = "idle"
    /\ batch' = [active |-> TRUE, sessionId |-> sessionId,
                 moderationLevel |-> moderationLevel, messages |-> messages,
                 results |-> << >>]
    /\ UNCHANGED <<modVars, lifeVars, voiceSettings, netVars>>

\* routes lines 959-966: moderateMessage is called on the next message
BatchCall ==
    /\ batch.active
    /\ mod.pc = "idle"
    /\ Len(batch.results) < Len(batch.messages)
    /\ LET message == batch.messages[Len(batch.results) + 1]
       IN mod' = StartCall(message.content, batch.sessionId, message.participantId,
                           batch.moderationLevel)
    /\ UNCHANGED <<geminiEnabled, redisConnected, alerts, published, lifeVars, auxVars, netVars>>

\* routes lines 984-986: the result pushed for a message whose moderateMessage rejected
BatchFailureResult == Result(FALSE, "none", "low", "Moderation failed, content allowed")

\* routes lines 968-987: the decision, or the catch's result, is pushed
BatchCollect ==
    /\ batch.active
    /\ mod.pc \in {"done", "threw"}
    /\ LET message == batch.messages[Len(batch.results) + 1]
       IN batch' = [batch EXCEPT !.results = Append(@,
                       [messageId |-> message.id, participantId |-> message.participantId,
                        result |-> IF mod.pc = "threw" THEN BatchFailureResult
                                   ELSE mod.result])]
    /\ mod' = IdleMod
    /\ UNCHANGED <<geminiEnabled, redisConnected, alerts, published, lifeVars,
                   voiceSettings, netVars>>

\* routes line 989: the results are returned
BatchReturn ==
    /\ batch.active
    /\ mod.pc = "idle"
    /\ Len(batch.results) = Len(batch.messages)
    /\ batch' = NoBatch
    /\ UNCHANGED <<modVars, lifeVars, voiceSettings, netVars>>

\* ----------------------------------------------------------- voice settings
\* the numeric settings, in hundredths of ElevenLabs' scale: 100 is 1.0
SettingKeys == {"stability", "similarity_boost", "style"}
NoSettings == [submitted |-> << >>, returned |-> << >>, cached |-> << >>]

\* settings.<key> || <fallback>: the fallback replaces a key that is missing or falsy
OrDefault(settings, key, fallback) ==
    IF key \in DOMAIN settings /\ settings[key] # 0 THEN settings[key] ELSE fallback

Min(a, b) == IF a <= b THEN a ELSE b
Max(a, b) == IF a >= b THEN a ELSE b

\* part_005 lines 147-162, the numeric settings
validateVoiceSettings(settings) ==
    [key \in SettingKeys |->
        Max(0, Min(100, OrDefault(settings, key,
                CASE key = "stability" -> 50
                  [] key = "similarity_boost" -> 80
                  [] OTHER -> 0)))]

\* router.post('/:sessionId/voice-settings'), routes lines 491-527, with redisService
\* lines 246-257: the validated settings are cached when Redis is connected, and returned
UpdateVoiceSettings(participantId, settings) ==
    /\ LET validatedSettings == validateVoiceSettings(settings)
       IN voiceSettings' = [voiceSettings EXCEPT ![participantId] =
              [submitted |-> settings, returned |-> validatedSettings,
               cached |-> IF redisConnected THEN validatedSettings ELSE @.cached]]
    /\ UNCHANGED <<modVars, lifeVars, batch, netVars>>

\* ------------------------------------------------------- specification
\* inputs of the requests
MaxUsesChoices == {Unlimited} \cup (0..2)
ExpiryHoursChoices == {0, 24}
ScheduleChoices == {NoTime, 0, MaxTicks * TickMs}

\* the users of the requests: the one who creates the sessions, and one other
Host == "u1"
Guest == "u2"

LifeInit ==
    /\ now = 0
    /\ sessions = << >>
    /\ invitations = << >>
    /\ acks = << >>
    /\ req = [r \in ReqIds |-> IdleReq]
    /\ nextAnon = 0

\* the service is constructed with or without an API key; Redis has not connected yet
ModInitWith(apiKey) ==
    /\ geminiEnabled = apiKey
    /\ redisConnected = FALSE
    /\ alerts = [s \in ModSessionIds |-> NoAlert]
    /\ published = {}
    /\ mod = IdleMod

ModInit == ModInitWith(FALSE)

AuxInit ==
    /\ batch = NoBatch
    /\ voiceSettings = [p \in ParticipantIds |-> NoSettings]

\* the sessions whose keys and channels are used
BusSessions == {"s1", "s2"}
\* redisService lines 48-84: three connections, nothing sent, nobody listening
BusInit ==
    /\ nextCall = 0
    /\ participantsKey = [s \in BusSessions |-> NoValue]
    /\ clientConn = [cmds |-> << >>, replies |-> << >>]
    /\ publisherConn = << >>
    /\ subscriberUp = FALSE
    /\ subscriptions = {}
    /\ pendingSubs = << >>
    /\ listeners = << >>
    /\ cacheLog = << >>
    /\ channelLog = << >>
    /\ deliveries = << >>

CacheInit ==
    /\ agoraUp = TRUE
    /\ sessionStateKey = [sid \in 1..MaxSessions |-> NoState]
    /\ createResp = NoCreateResp
    /\ statusResp = NoStatusResp

\* apiEndpoints.ts lines 714-733: the fields of a new RealTimeService
RtInit ==
    /\ connectionState = "disconnected"
    /\ socket = [exists |-> FALSE, connected |-> FALSE]
    /\ messageQueue = << >>
    /\ reconnectAttempts = 0
    /\ timers = << >>
    /\ nextEvent = 0
    /\ clientNow = 0
    /\ sent = << >>

ApiReqIds == 1..MaxApiReq
IdleApiReq == [pc |-> "idle", retry |-> FALSE, skipAuth |-> FALSE, attempts |-> 0,
               status |-> 0]

\* ApiClient lines 1023-1026: the fields of a new ApiClient
ApiInit ==
    /\ isRefreshing = FALSE
    /\ failedQueue = << >>
    /\ apiReq = [r \in ApiReqIds |-> IdleApiReq]
    /\ refreshToken = TRUE
    /\ refreshesInFlight = 0
    /\ lastRefresh = "none"

IdleEmCall == [pc |-> "idle", id |-> 0, sessionId |-> "", alertData |-> NoAlert]

EmInit ==
    /\ emCall = IdleEmCall
    /\ emLog = << >>

ServerEvents == 1..MaxServerEvents

\* no socket has been created
SockInit ==
    /\ orphans = << >>
    /\ received = [e \in ServerEvents |-> 0]

\* no metric has been counted
MetInit == metricsKey = [sid \in 1..MaxSessions |-> 0]

RlCallIds == 1..MaxRlCalls
IdleRlCall == [pc |-> "idle", current |-> 0, result |-> FALSE]

\* no call has been made for the key
RlInit ==
    /\ rlKey = [count |-> 0, hasExpiry |-> FALSE]
    /\ rlCalls = [c \in RlCallIds |-> IdleRlCall]
    /\ rlAllowed = 0

NoSsSocket == [exists |-> FALSE, connected |-> FALSE, auth |-> ""]
\* socket.ts lines 17-21: the token passed to connect(), or one of the stored tokens
AuthTokens == {"token", "stored"}

\* socket.ts lines 4-6: the fields of a new SocketService
SsInit ==
    /\ ssSocket = NoSsSocket
    /\ ssIsConnected = FALSE
    /\ connectionPromise = "null"
    /\ ssAttempts = 0
    /\ ssCalls = 0

CliInit == ApiInit /\ EmInit /\ SockInit /\ MetInit /\ RlInit /\ SsInit

NetInit == BusInit /\ CacheInit /\ RtInit /\ CliInit

Init == LifeInit /\ ModInit /\ AuxInit /\ NetInit

InitMod == LifeInit /\ AuxInit /\ NetInit /\ \E apiKey \in BOOLEAN : ModInitWith(apiKey)

\* the join-by-code route under concurrent requests
Next ==
    \/ Tick
    \/ \E t \in ScheduleChoices : CreateSession(Host, t, MaxCap, TRUE)
    \/ \E u \in {Host, Guest}, sid \in 1..(MaxSessions + 1), m \in MaxUsesChoices,
          h \in ExpiryHoursChoices, a \in BOOLEAN :
          CreateInvitation(u, sid, m, h, a)
    \/ \E r \in ReqIds, c \in 1..(MaxInvites + 1), u \in {Guest, NoUser},
          k \in BOOLEAN :
          JoinStart(r, c, u, k)
    \/ \E r \in ReqIds : JoinCheck(r)
    \/ \E r \in ReqIds : JoinDecide(r)
    \/ \E r \in ReqIds : JoinIncrement(r)

Spec == Init /\ [][Next]_vars

\* capacity: sessions of every size, joined directly and by invitation code
NextCap ==
    \/ \E m \in 1..MaxCap : CreateSession(Host, NoTime, m, TRUE)
    \/ \E m \in {Unlimited, 1}, a \in BOOLEAN : CreateInvitation(Host, 1, m, 24, a)
    \/ \E r \in ReqIds, u \in {Guest, NoUser}, k \in BOOLEAN : JoinStart(r, 1, u, k)
    \/ \E r \in ReqIds : JoinCheck(r)
    \/ \E r \in ReqIds : JoinDecide(r)
    \/ \E r \in ReqIds : JoinIncrement(r)
    \/ \E u \in {Guest, NoUser} : DirectJoin(1, u)

SpecCap == Init /\ [][NextCap]_vars

\* the session lifecycle: creation, direct joins, end
NextLife ==
    \/ Tick
    \/ \E u \in Users, t \in ScheduleChoices, m \in 1..MaxCap, a \in BOOLEAN :
          CreateSession(u, t, m, a)
    \/ \E sid \in 1..(MaxSessions + 1), u \in Users \cup {NoUser} : DirectJoin(sid, u)
    \/ \E sid \in 1..(MaxSessions + 1), u \in Users : EndSession(sid, u)

SpecLife == Init /\ [][NextLife]_vars

\* the participant list under every operation that changes it
NextHost ==
    \/ \E u \in Users, m \in 2..(MaxCap + 1) : CreateSession(u, NoTime, m, TRUE)
    \/ \E u \in Users \cup {NoUser} : DirectJoin(1, u)
    \/ \E u \in Users : LeaveSession(1, u)
    \/ \E by \in Users, target \in Users : KickParticipant(1, by, target)
    \/ \E by \in Users, target \in Users : MuteParticipant(1, by, target)
    \/ \E by \in Users, target \in Users : PromoteParticipant(1, by, target)
    \/ \E u \in Users : EndSession(1, u)

SpecHost == Init /\ [][NextHost]_vars

\* invitations created by every user, for sessions of every host
NextInvite ==
    \/ Tick
    \/ \E u \in Users, t \in ScheduleChoices : CreateSession(u, t, MaxCap, TRUE)
    \/ \E u \in Users, sid \in 1..(MaxSessions + 1), m \in MaxUsesChoices,
          h \in ExpiryHoursChoices, a \in BOOLEAN :
          CreateInvitation(u, sid, m, h, a)

SpecInvite == Init /\ [][NextInvite]_vars

\* the calls come one after the other: the next message is moderated when the decision
\* of the one before has been taken
NextMessages(messages) == IF mod.pc = "idle" THEN messages ELSE {}

\* the moderation decision: every message, one participant
NextMod ==
    \/ \E m \in NextMessages(Messages), l \in ModerationLevels : ModStart(m, "s1", "p1", l)
    \/ ModSetex
    \/ ModSetexFail
    \/ ModPublish
    \/ \E a \in AnalysisChoices : ModGemini(a)
    \/ ModGeminiFail
    \/ ModReturn
    \/ RedisConnect
    \/ RedisDisconnect
    \/ \E s \in ModSessionIds : AlertExpire(s)

SpecMod == InitMod /\ [][NextMod]_vars

\* the emergency alert key: a few messages, the participants of one session
AlertMessages == {<<"SUICIDE">>, <<"can't", " ", "handle">>, <<"handle">>}

NextAlert ==
    \/ \E m \in NextMessages(AlertMessages), s \in ModSessionIds, p \in ParticipantIds,
          l \in ModerationLevels : ModStart(m, s, p, l)
    \/ ModSetex
    \/ ModSetexFail
    \/ ModPublish
    \/ \E a \in AnalysisChoices : ModGemini(a)
    \/ ModGeminiFail
    \/ ModReturn
    \/ RedisConnect
    \/ RedisDisconnect
    \/ \E s \in ModSessionIds : AlertExpire(s)

SpecAlert == InitMod /\ [][NextAlert]_vars

\* the deep analysis: every score tuple, in tenths, at every level
ScoreValues == 0..10
AllAnalyses == {Analysis(t, h, i, sp) : t \in ScoreValues, h \in ScoreValues,
                                        i \in ScoreValues, sp \in ScoreValues}
NextAnalyses == IF mod.pc = "gemini" THEN AllAnalyses ELSE {}

InitGem == LifeInit /\ AuxInit /\ NetInit /\ ModInitWith(TRUE)

NextGem ==
    \/ \E l \in ModerationLevels : ModStart(<<"handle">>, "s1", "p1", l)
    \/ \E a \in NextAnalyses : ModGemini(a)
    \/ ModGeminiFail
    \/ ModReturn

SpecGem == InitGem /\ [][NextGem]_vars

\* voice transcripts and text messages through the same pipeline
NextVoice ==
    \/ \E m \in AlertMessages, l \in ModerationLevels : ModStartVoice(m, "s1", "p1", l)
    \/ \E m \in AlertMessages, l \in ModerationLevels : ModStart(m, "s1", "p1", l)
    \/ ModSetex
    \/ ModSetexFail
    \/ ModPublish
    \/ \E a \in AnalysisChoices : ModGemini(a)
    \/ ModGeminiFail
    \/ ModReturn
    \/ RedisConnect
    \/ RedisDisconnect

SpecVoice == InitMod /\ [][NextVoice]_vars

\* batchModerate over batches of up to MaxBatch messages, one of them not a string
BatchContents == {<<"SUICIDE">>, <<"handle">>, <<CapsTok>>, NotAString}
BatchMessage(id, content) == [id |-> id, participantId |-> "p1", content |-> content]
Batches ==
    {<<BatchMessage(1, c)>> : c \in BatchContents}
    \cup {<<BatchMessage(1, c), BatchMessage(2, d)>> : c \in BatchContents, d \in BatchContents}

NextBatch ==
    \/ \E b \in Batches, l \in {"low", "strict"} : BatchStart(b, "s1", l)
    \/ BatchCall
    \/ BatchCollect
    \/ BatchReturn
    \/ ModSetex
    \/ ModSetexFail
    \/ ModPublish
    \/ \E a \in AnalysisChoices : ModGemini(a)
    \/ ModGeminiFail
    \/ RedisConnect
    \/ RedisDisconnect

SpecBatch == InitMod /\ [][NextBatch]_vars

\* the voice-settings route: every choice of submitted keys and values
SettingValues == {0 - 50, 0, 30, 100, 15000}
SubmittedSettings == UNION {[keys -> SettingValues] : keys \in SUBSET SettingKeys}

NextSettings ==
    \/ \E st \in SubmittedSettings : UpdateVoiceSettings("p1", st)
    \/ RedisConnect
    \/ RedisDisconnect

SpecSettings == Init /\ [][NextSettings]_vars

\* =================================================================== claims

\* the step in which request r is answered
Answered(r) == req[r].pc # "done" /\ req'[r].pc = "done"
\* the steps of request r
StartStep(r) == req[r].pc \in {"idle", "done"} /\ req'[r].pc = "lookedUp"
CheckStep(r) == req[r].pc = "lookedUp" /\ req'[r].pc # "lookedUp"
DecideStep(r) == req[r].pc = "gotSession" /\ req'[r].pc # "gotSession"

\* C1: the participant list never holds more than maxParticipants entries, and a join
\* attempted while the session is full is rejected: no request that found the session
\* full gets past the checks of the route to be issued its join credentials
C1_CapacityEnforced ==
    /\ \A sid \in SessionIds :
          Len(sessions[sid].participants) <= sessions[sid].maxParticipants
    /\ \A r \in ReqIds :
          req[r].pc = "ackSaved" =>
              Len(req[r].sess.participants) < req[r].sess.maxParticipants

C3_UsesWithinMax ==
    \A c \in Codes :
        invitations[c].maxUses >= 0 =>
            /\ invitations[c].currentUses <= invitations[c].maxUses
            /\ Len(invitations[c].usageLog) <= invitations[c].maxUses

\* C4: a redemption answered "scheduled" or "requires_acknowledgment" has written
\* nothing: it is answered by the deciding step, before any save, and that step leaves
\* invitations and acknowledgments alone; a redemption answered "acknowledged" adds
\* exactly 1 to currentUses and one usageLog entry; nothing else changes a use count
C4_OnlyAcknowledgedConsumes ==
    [][/\ \A r \in ReqIds :
            (Answered(r) /\ req'[r].resp.kind \in {"scheduled", "requires_acknowledgment"})
                => /\ req[r].pc = "gotSession"
                   /\ invitations' = invitations
                   /\ acks' = acks
       /\ \A r \in ReqIds :
            (Answered(r) /\ req'[r].resp.kind = "acknowledged")
                => LET c == req[r].code IN
                   /\ invitations'[c].currentUses = invitations[c].currentUses + 1
                   /\ Len(invitations'[c].usageLog) = Len(invitations[c].usageLog) + 1
       /\ \A c \in Codes :
            (\/ invitations'[c].currentUses # invitations[c].currentUses
             \/ invitations'[c].usageLog # invitations[c].usageLog)
                => \E r \in ReqIds :
                      /\ Answered(r) /\ req'[r].resp.kind = "acknowledged"
                      /\ req[r].code = c
       /\ acks' # acks =>
            \E r \in ReqIds : req[r].pc = "gotSession" /\ req'[r].pc = "ackSaved"]_vars

C4_Witness ==
    /\ \E r \in ReqIds : req[r].resp.kind = "requires_acknowledgment"
    /\ \E r \in ReqIds : req[r].resp.kind = "acknowledged"
    /\ \E c \in Codes : invitations[c].currentUses = 1

\* the message holds one of the configured keywords, in any letter case
ContainsCrisisKeyword(content) ==
    \E k \in 1..Len(emergencyKeywords) :
        Includes(toLowerCase(content), emergencyKeywords[k])

\* C5: a moderateMessage call whose message contains a configured crisis keyword or
\* matches a crisis pattern returns action emergency_alert with severity critical, at
\* every moderation level, with or without the deep analyzer, and whether or not a basic
\* heuristic would have flagged the message as well
C5_CrisisAlwaysEmergency ==
    (/\ mod.pc = "done"
     /\ mod.moderationLevel \in ModerationLevels
     /\ ContainsCrisisKeyword(mod.content) \/ MatchesCrisisPattern(mod.content))
    => /\ mod.result.action = "emergency_alert"
       /\ mod.result.severity = "critical"

\* a capital-letter message of more than 20 characters that holds a keyword is decided
\* emergency_alert at level low with the deep analyzer configured
C5_Witness ==
    /\ mod.pc = "done"
    /\ mod.moderationLevel = "low"
    /\ geminiEnabled
    /\ ContainsCrisisKeyword(mod.content)
    /\ basicContentFilter(mod.content).flagged
    /\ mod.result.action = "emergency_alert"
    /\ mod.result.severity = "critical"

\* C6: the deciding step of a join whose session is scheduled to start more than 15
\* minutes from now answers "scheduled" with timeUntilStart = scheduledAt - now and
\* changes no session, acknowledgment or invitation; at or within 15 minutes the answer
\* is not "scheduled"
C6_ScheduledGate ==
    [][\A r \in ReqIds :
          DecideStep(r) =>
              LET s == req[r].sess IN
              IF s.found /\ s.status = "scheduled" /\ s.scheduledAt - now > 15 * 60 * 1000
                THEN /\ req'[r].pc = "done"
                     /\ req'[r].resp.kind = "scheduled"
                     /\ req'[r].resp.timeUntilStart = s.scheduledAt - now
                     /\ sessions' = sessions /\ acks' = acks
                     /\ invitations' = invitations
                ELSE req'[r].resp.kind # "scheduled"]_vars

C6_Witness ==
    /\ \E r \in ReqIds :
          req[r].resp.kind = "scheduled" /\ req[r].resp.timeUntilStart = 20 * 60 * 1000
    /\ \E r \in ReqIds :
          /\ req[r].pc = "ackSaved" /\ req[r].sess.status = "scheduled"
          /\ req[r].sess.scheduledAt - now = 15 * 60 * 1000

C8_InvalidCodeNotFound ==
    [][\A r \in ReqIds :
          /\ StartStep(r) =>
                LET c == req'[r].code IN
                (\/ c \notin Codes
                 \/ ~invitations[c].isActive
                 \/ now > invitations[c].expiresAt) => req'[r].inv = NoInv
          /\ (CheckStep(r) /\ req[r].inv = NoInv)
                => /\ req'[r].pc = "done" /\ req'[r].resp.status = 404
                   /\ acks' = acks /\ invitations' = invitations]_vars

C8_Witness ==
    /\ \E r \in ReqIds :
          /\ req[r].pc = "lookedUp" /\ req[r].code \in Codes /\ req[r].inv = NoInv
          /\ invitations[req[r].code].isActive
          /\ now > invitations[req[r].code].expiresAt
    /\ \E r \in ReqIds : req[r].pc = "done" /\ req[r].resp.status = 404

C10_AlertStoredOnReturn ==
    (/\ mod.pc = "done"
     /\ mod.result.isEmergency
     /\ mod.result.action = "emergency_alert")
    => /\ alerts[mod.sessionId] # NoAlert
       /\ alerts[mod.sessionId].status = "active"
       /\ alerts[mod.sessionId].sessionId = mod.sessionId
       /\ alerts[mod.sessionId].participantId = mod.participantId

\* the Tier 1 crisis check matches the content
CrisisMatch(content) == checkEmergencyContent(content).isEmergency
\* the deep analyzer was invoked and threw: the catch ran the crisis check again
AnalyzerThrew == mod.stages = <<"tier1", "basic", "gemini", "tier1">>
\* the call went without a deep analysis: none is configured, or it threw
AnalyzerUnavailable == ~geminiEnabled \/ AnalyzerThrew

\* C11 (as stated): when the deep analyzer is not configured or throws, moderateMessage
\* still returns a decision: action none for every content without a crisis match, and
\* emergency_alert/critical for a content with one
C11_FailOpenAsStated ==
    /\ mod.pc # "threw"
    /\ (mod.pc = "done" /\ AnalyzerUnavailable)
       => IF CrisisMatch(mod.content)
            THEN mod.result.action = "emergency_alert" /\ mod.result.severity = "critical"
            ELSE mod.result.action = "none"

\* C11 (amended): when the deep analyzer is not configured or throws, moderateMessage
\* still returns a decision: emergency_alert/critical for a content with a crisis match,
\* the warning of the basic filter for a content it flags, and action none otherwise
C11_FailOpen ==
    /\ mod.pc # "threw"
    /\ (mod.pc = "done" /\ AnalyzerUnavailable)
       => IF CrisisMatch(mod.content)
            THEN mod.result.action = "emergency_alert" /\ mod.result.severity = "critical"
          ELSE IF basicContentFilter(mod.content).flagged
            THEN mod.result.action = "warning"
          ELSE mod.result.action = "none" /\ ~mod.result.isEmergency

\* the deep analyzer threw on a content without a crisis match, and the content is allowed
C11_Witness ==
    /\ mod.pc = "done"
    /\ AnalyzerThrew
    /\ ~CrisisMatch(mod.content)
    /\ mod.result.action = "none"

\* C12: a content on which the Tier 1 crisis check throws is never decided action none,
\* neither by moderateMessage nor in the results of batchModerate
C12_Tier1FailureClosed ==
    /\ (mod.pc = "done" /\ ThrowsTypeError(mod.content)) => mod.result.action # "none"
    /\ \A i \in 1..Len(batch.results) :
          ThrowsTypeError(batch.messages[i].content)
             => batch.results[i].result.action # "none"

\* C13: the stages run in the order crisis check, basic filter, deep analyzer, and the
\* first that flags decides: after a crisis match nothing else is invoked, and after a
\* flag of the basic filter the deep analyzer is not invoked
C13_StageOrder ==
    mod.pc \in {"handle", "publish", "gemini", "done"} =>
       /\ \E n \in 1..3 : SubSeq(mod.stages, 1, Min(3, Len(mod.stages)))
                             = SubSeq(<<"tier1", "basic", "gemini">>, 1, n)
       /\ CrisisMatch(mod.content)
            => /\ mod.stages = <<"tier1">>
               /\ mod.pc = "done" => mod.result.action = "emergency_alert"
       /\ (~CrisisMatch(mod.content) /\ basicContentFilter(mod.content).flagged)
            => /\ mod.stages = <<"tier1", "basic">>
               /\ mod.pc = "done"
               /\ mod.result.action = basicContentFilter(mod.content).action
               /\ mod.result.severity = basicContentFilter(mod.content).severity

\* a message with a crisis match that the basic filter would flag too is decided by the
\* crisis check alone, with the deep analyzer configured
C13_Witness ==
    /\ mod.pc = "done"
    /\ geminiEnabled
    /\ CrisisMatch(mod.content)
    /\ basicContentFilter(mod.content).flagged
    /\ mod.stages = <<"tier1">>

\* the decision was taken by the deep analysis
DeepDecided == mod.pc = "done" /\ mod.stages = <<"tier1", "basic", "gemini">>
\* the claimed grade of a score that crossed its threshold
Grade(score) == IF score >= 8 THEN "kick" ELSE IF score >= 6 THEN "mute" ELSE "warning"
\* the scores of toxicity and inappropriate that cross the thresholds of the level
CrossingScores(analysis, level) ==
    {sc \in {analysis.toxicity} : sc >= thresholds[level].toxicity}
    \cup {sc \in {analysis.inappropriate} : sc >= thresholds[level].harassment}

\* C14: for every score tuple and level the deep-analysis decision is emergency_alert /
\* critical when selfHarm reaches the level's threshold; otherwise, when toxicity or
\* inappropriate crosses its threshold, the grade of a crossing score (kick from 0.8,
\* mute from 0.6, warning below); otherwise warning when spam reaches 0.7; otherwise none
C14_DeepDecision ==
    DeepDecided =>
       LET a == mod.details
           l == mod.moderationLevel
       IN IF a.selfHarm >= thresholds[l].selfHarm
            THEN mod.result.action = "emergency_alert" /\ mod.result.severity = "critical"
          ELSE IF CrossingScores(a, l) # {}
            THEN \E sc \in CrossingScores(a, l) : mod.result.action = Grade(sc)
          ELSE IF a.spam >= 7 THEN mod.result.action = "warning"
          ELSE mod.result.action = "none"

LevelOrder == <<"low", "medium", "high", "strict">>
ActionRank(action) ==
    CASE action = "none" -> 0
      [] action = "warning" -> 1
      [] action = "mute" -> 2
      [] action = "kick" -> 3
      [] action = "emergency_alert" -> 4

\* C15: every threshold decreases along low > medium > high > strict, and for a fixed
\* score tuple the decision at a stricter level is at least as severe as at a laxer one
C15_StricterTriggersSooner ==
    /\ \A i \in 1..3 : \A k \in {"toxicity", "selfHarm", "harassment"} :
          thresholds[LevelOrder[i]][k] > thresholds[LevelOrder[i + 1]][k]
    /\ DeepDecided =>
          \A i \in 1..4, j \in 1..4 :
             (i <= j /\ LevelOrder[i] = mod.moderationLevel)
                => ActionRank(GeminiDecision(mod.details, LevelOrder[j]).action)
                      >= ActionRank(mod.result.action)

\* a score tuple decided none at its level and more severely at a stricter one
C15_Witness ==
    /\ DeepDecided
    /\ mod.result.action = "none"
    /\ mod.moderationLevel = "low"
    /\ GeminiDecision(mod.details, "strict").action = "mute"

\* the level one step laxer
OneStepLaxer(level) ==
    LET i == CHOOSE k \in 1..4 : LevelOrder[k] = level
    IN LevelOrder[Max(1, i - 1)]

\* C16: a voice transcript is moderated as a message at the level one step laxer than the
\* one asked for (strict -> high, high -> medium, medium -> low, low -> low), and a
\* transcript with a crisis match is decided emergency_alert/critical at every level
C16_VoiceRelaxedOneStep ==
    (mod.pc = "done" /\ mod.contentType = "voice") =>
       /\ mod.moderationLevel = OneStepLaxer(mod.requestedLevel)
       /\ CrisisMatch(mod.content)
            => mod.result.action = "emergency_alert" /\ mod.result.severity = "critical"
       /\ DeepDecided
            => LET d == GeminiDecision(mod.details, OneStepLaxer(mod.requestedLevel))
               IN mod.result.action = d.action /\ mod.result.severity = d.severity

\* a transcript asked at medium whose scores are flagged at medium but not at low
C16_Witness ==
    /\ DeepDecided
    /\ mod.contentType = "voice"
    /\ mod.requestedLevel = "medium"
    /\ mod.result.action = "none"
    /\ GeminiDecision(mod.details, "medium").action = "emergency_alert"

\* the value the claim expects for a submitted value
Clamp(v) == Min(Max(v, 0), 100)

\* C17: for every submitted numeric value of stability, similarity_boost and style, the
\* returned value is the value clamped into the valid range, so a value inside the range,
\* the lower bound 0 included, is returned unchanged; the cached value is the same when
\* the cache was written
C17_VoiceSettingsClamped ==
    \A p \in ParticipantIds :
       LET vs == voiceSettings[p]
       IN \A key \in DOMAIN vs.submitted :
             vs.returned[key] = Clamp(vs.submitted[key])

\* the step that creates a session, and the session it creates
Created == Len(sessions') = Len(sessions) + 1
NewestSession == sessions'[Len(sessions')]

\* C18: a session created with a start time has a start time in the future, status
\* scheduled, isActive false and no startTime; a session created without one has status
\* active at once, with the host as its one joined participant; a start time that is not
\* in the future creates no session
C18_CreationStatus ==
    [][Created =>
         IF NewestSession.scheduledAt # NoTime
           THEN /\ NewestSession.scheduledAt > now
                /\ NewestSession.status = "scheduled"
                /\ ~NewestSession.isActive
                /\ NewestSession.startTime = NoTime
           ELSE /\ NewestSession.status = "active"
                /\ NewestSession.isActive
                /\ NewestSession.startTime = now
                /\ Len(NewestSession.participants) = 1
                /\ NewestSession.participants[1].id = NewestSession.hostId
                /\ NewestSession.currentParticipants = 1]_vars

\* a scheduled session that nobody has joined yet
C18_Witness ==
    \E sid \in SessionIds :
       /\ sessions[sid].status = "scheduled"
       /\ sessions[sid].scheduledAt > now
       /\ ~sessions[sid].isActive

C20_InvitationAuthorized ==
    [][Len(invitations') > Len(invitations) =>
         LET inv == invitations'[Len(invitations')]
         IN /\ Len(invitations') = Len(invitations) + 1
            /\ inv.sessionId \in SessionIds
            /\ \/ inv.createdBy = sessions[inv.sessionId].hostId
               \/ inv.createdBy \in Admins
            /\ inv.currentUses = 0
            /\ inv.usageLog = << >>
            /\ inv.isActive]_vars

\* an invitation created by an administrator who is not the host of the session
C20_Witness ==
    \E code \in Codes :
       /\ invitations[code].createdBy \in Admins
       /\ invitations[code].createdBy # sessions[invitations[code].sessionId].hostId
       /\ invitations[code].currentUses = 0

\* ------------------------------------ joins against sessions that may end
\* the join-by-code route and the direct join against a session of either
\* allowAnonymous setting that its host may end
NextJoin ==
    \/ \E a \in BOOLEAN : CreateSession(Host, NoTime, MaxCap, a)
    \/ \E k \in BOOLEAN : CreateInvitation(Host, 1, Unlimited, 24, k)
    \/ \E r \in ReqIds, u \in {Guest, NoUser}, k \in BOOLEAN : JoinStart(r, 1, u, k)
    \/ \E r \in ReqIds : JoinCheck(r)
    \/ \E r \in ReqIds : JoinDecide(r)
    \/ \E r \in ReqIds : JoinIncrement(r)
    \/ \E u \in {Guest, NoUser} : DirectJoin(1, u)
    \/ EndSession(1, Host)

SpecJoin == Init /\ [][NextJoin]_vars

\* C21: a join whose target session is missing or ended is rejected with NotFound
\* and records nothing: a request that read a missing or an ended session at its
\* session lookup is answered 404 there, and never goes on to save an Acknowledgment
\* and to consume a use of the invitation
C21_EndedJoinNotFound ==
    \A r \in ReqIds :
        req[r].pc = "ackSaved" =>
            req[r].sess.found /\ req[r].sess.status # "ended"

\* C22: no Acknowledgment with isAnonymous = true is recorded, and so no join
\* credentials are issued to an anonymous requester, for a session with
\* allowAnonymous = false
C22_AnonymousRejected ==
    \A i \in 1..Len(acks) :
        acks[i].isAnonymous => sessions[acks[i].sessionId].allowAnonymous

\* ------------------------------------------- concurrent direct joins (design 5)
\* the direct join as a handler that awaits between reading the session and
\* committing the admission, with no lock or transaction around the two steps
\* (DirectJoin above is the same handler run with no other request in between)
DirectJoinRead(r, sid, user) ==
    /\ req[r].pc \in {"idle", "done"}
    /\ user = NoUser => nextAnon + PendingAnon < MaxAnon
    /\ LET session == FindSession(sid)
           isAnon == user = NoUser
           userId == IF isAnon THEN AnonNames[nextAnon + 1] ELSE user
       IN /\ session.found => ~IsParticipant(session, userId)
          /\ \A q \in ReqIds \ {r} : req[q].pc = "joinRead" => req[q].userId # userId
          /\ nextAnon' = IF isAnon THEN nextAnon + 1 ELSE nextAnon
          /\ req' = [req EXCEPT ![r] =
                  [IdleReq EXCEPT !.pc = "joinRead", !.sessionId = sid, !.user = user,
                                  !.userId = userId, !.sess = session]]
    /\ UNCHANGED <<now, sessions, invitations, acks, modVars, auxVars, netVars>>

\* the session re-read at the commit, as a transaction or a lock would have it
ReadSession_Reread(r) == FindSession(req[r].sessionId)

\* the session document the handler holds since its read
ReadSession(r) == req[r].sess

\* rule (e) written to the stored document: the entry is pushed onto the list as
\* it is now, and the start is stamped when the handler read a scheduled session
CommitAdmission(current, read, userId) ==
    [current EXCEPT
        !.participants = Append(@, Participant(userId, FALSE)),
        !.currentParticipants = @ + 1,
        !.status = IF read.status = "scheduled" THEN "active" ELSE @,
        !.isActive = IF read.status = "scheduled" THEN TRUE ELSE @,
        !.startTime = IF read.status = "scheduled" THEN now ELSE @]

DirectJoinCommit(r) ==
    /\ req[r].pc = "joinRead"
    /\ LET sid == req[r].sessionId
           outcome == DirectJoinOutcome(ReadSession(r), req[r].user = NoUser)
       IN /\ IF outcome = "admitted"
               THEN sessions' = [sessions EXCEPT ![sid] =
                        CommitAdmission(sessions[sid], ReadSession(r), req[r].userId)]
               ELSE UNCHANGED sessions
          /\ req' = [req EXCEPT ![r] =
                  Done(Resp(outcome, IF outcome = "admitted" THEN 200 ELSE 400))]
    /\ UNCHANGED <<now, invitations, acks, nextAnon, modVars, auxVars, netVars>>

\* the users who join: two signed in, and anonymous requesters
Joiners == {Guest, "u3", NoUser}

NextRace ==
    \/ \E m \in 2..(MaxCap + 1), a \in BOOLEAN : CreateSession(Host, NoTime, m, a)
    \/ \E r \in ReqIds, sid \in 1..(MaxSessions + 1), u \in Joiners :
          DirectJoinRead(r, sid, u)
    \/ \E r \in ReqIds : DirectJoinCommit(r)
    \/ \E u \in Joiners : LeaveSession(1, u)

SpecRace == Init /\ [][NextRace]_vars

CommitStep(r) == req[r].pc = "joinRead" /\ req'[r].pc = "done"

\* C23: nothing serializes the joins of a session: a join is decided on the
\* session as the handler read it, whatever has been committed since, and an
\* admission pushes onto the stored list without reading it again; so of two
\* requests that each read the one free slot both are admitted
C23_NoSerialization ==
    [][\A r \in ReqIds :
          CommitStep(r) =>
              LET read == req[r].sess
                  sid == req[r].sessionId
                  free == read.found /\ read.status # "ended"
                          /\ Len(read.participants) < read.maxParticipants
                          /\ (req[r].user = NoUser => read.allowAnonymous)
              IN /\ req'[r].resp.kind = "admitted" <=> free
                 /\ free => Len(sessions'[sid].participants)
                              = Len(sessions[sid].participants) + 1
      ]_vars

\* two requests read the same session with one free slot, and both were admitted
C23_Witness ==
    /\ \A r \in ReqIds : req[r].pc = "done" /\ req[r].resp.kind = "admitted"
    /\ \E sid \in SessionIds :
          /\ Len(sessions[sid].participants) = sessions[sid].maxParticipants + 1
          /\ \A i, j \in 1..Len(sessions[sid].participants) :
                i # j => sessions[sid].participants[i].id # sessions[sid].participants[j].id

\* ------------------------------------- RedisService: the cache and the channels
Callbacks == {"cb1", "cb2"}
ParticipantLists == {<< "p1" >>, << "p1", "p2" >>}
EventTypes == {"hand_raised"}

\* lines 173, 204, 224: the channel of a session
ChannelOf(sessionId) == << "session:", sessionId, ":events" >>

\* lines 173-177 and 205-209: JSON.stringify of the event; line 229: JSON.parse
Stringify(event) ==
    << "type", event.type, "data", event.data, "timestamp", event.timestamp >>
Parse(message) ==
    [type |-> message[2], data |-> message[4], timestamp |-> message[6]]

\* the commands of a connection answered in any order
Fifo_AnyOrder(queue) == 1..Len(queue)

\* lines 48-52: each instance is one connection; the server takes up the commands
\* of a connection, and the client its replies, in the order they were sent
Fifo(queue) == IF queue = << >> THEN {} ELSE {1}

RemoveAt(queue, i) == SubSeq(queue, 1, i - 1) \o SubSeq(queue, i + 1, Len(queue))

\* lines 166-171: the call runs up to its first await, the SETEX is on its way
UpdateStart(sessionId, participants) ==
    /\ redisConnected
    /\ nextCall < MaxCalls
    /\ nextCall' = nextCall + 1
    /\ clientConn' = [clientConn EXCEPT !.cmds =
            Append(@, [call |-> nextCall + 1, sessionId |-> sessionId,
                       value |-> participants])]
    /\ UNCHANGED <<participantsKey, publisherConn, subscriberUp, subscriptions,
                   pendingSubs, listeners, cacheLog, channelLog, deliveries>>
    /\ UNCHANGED <<lifeVars, modVars, auxVars, cacheVars, rtVars, cliVars>>

\* the server executes the SETEX and answers
SetexServe ==
    /\ \E i \in Fifo(clientConn.cmds) :
          LET cmd == clientConn.cmds[i] IN
          /\ participantsKey' = [participantsKey EXCEPT ![cmd.sessionId] = cmd.value]
          /\ cacheLog' = Append(cacheLog, cmd)
          /\ clientConn' = [cmds |-> RemoveAt(clientConn.cmds, i),
                            replies |-> Append(clientConn.replies,
                                [call |-> cmd.call, sessionId |-> cmd.sessionId,
                                 value |-> cmd.value, ok |-> TRUE])]
    /\ UNCHANGED <<nextCall, publisherConn, subscriberUp, subscriptions, pendingSubs,
                   listeners, channelLog, deliveries>>
    /\ UNCHANGED <<lifeVars, modVars, auxVars, cacheVars, rtVars, cliVars>>

\* the SETEX is rejected: nothing is written
SetexFail ==
    /\ \E i \in Fifo(clientConn.cmds) :
          LET cmd == clientConn.cmds[i] IN
          clientConn' = [cmds |-> RemoveAt(clientConn.cmds, i),
                         replies |-> Append(clientConn.replies,
                             [call |-> cmd.call, sessionId |-> cmd.sessionId,
                              value |-> cmd.value, ok |-> FALSE])]
    /\ UNCHANGED <<nextCall, participantsKey, publisherConn, subscriberUp,
                   subscriptions, pendingSubs, listeners, cacheLog, channelLog,
                   deliveries>>
    /\ UNCHANGED <<lifeVars, modVars, auxVars, cacheVars, rtVars, cliVars>>

\* lines 171-185: the await of the SETEX returns; the event is sent for publication,
\* or the rejection is caught
UpdateResume ==
    /\ \E i \in Fifo(clientConn.replies) :
          LET reply == clientConn.replies[i] IN
          /\ clientConn' = [clientConn EXCEPT !.replies = RemoveAt(@, i)]
          /\ publisherConn' =
                IF reply.ok
                  THEN Append(publisherConn,
                          [call |-> reply.call, channel |-> ChannelOf(reply.sessionId),
                           message |-> Stringify([type |-> "participants_updated",
                                                  data |-> reply.value,
                                                  timestamp |-> now])])
                  ELSE publisherConn
    /\ UNCHANGED <<nextCall, participantsKey, subscriberUp, subscriptions, pendingSubs,
                   listeners, cacheLog, channelLog, deliveries>>
    /\ UNCHANGED <<lifeVars, modVars, auxVars, cacheVars, rtVars, cliVars>>

\* lines 201-218
PublishToSession(sessionId, event, data) ==
    /\ redisConnected
    /\ nextCall < MaxCalls
    /\ nextCall' = nextCall + 1
    /\ publisherConn' = Append(publisherConn,
            [call |-> nextCall + 1, channel |-> ChannelOf(sessionId),
             message |-> Stringify([type |-> event, data |-> data, timestamp |-> now])])
    /\ UNCHANGED <<participantsKey, clientConn, subscriberUp, subscriptions,
                   pendingSubs, listeners, cacheLog, channelLog, deliveries>>
    /\ UNCHANGED <<lifeVars, modVars, auxVars, cacheVars, rtVars, cliVars>>

\* the listener without the comparison of line 227
Receives_Unfiltered(listener, receivedChannel) == TRUE

\* line 227
Receives(listener, receivedChannel) == receivedChannel = listener.channel

\* lines 226-235: the subscriber emits 'message' once for a message of a channel it
\* is subscribed to, and every listener attached to it runs
Invocations(p) ==
    IF subscriberUp /\ p.channel \in subscriptions
      THEN LET hearing == SelectSeq(listeners, LAMBDA l : Receives(l, p.channel))
           IN [k \in 1..Len(hearing) |->
                  [callback |-> hearing[k].callback,
                   registeredFor |-> hearing[k].sessionId,
                   call |-> p.call, channel |-> p.channel,
                   event |-> Parse(p.message)]]
      ELSE << >>

\* the server executes the PUBLISH: the message goes to the connections subscribed
\* now and is kept nowhere
PublishServe ==
    /\ \E i \in Fifo(publisherConn) :
          LET p == publisherConn[i] IN
          /\ publisherConn' = RemoveAt(publisherConn, i)
          /\ channelLog' = Append(channelLog,
                [call |-> p.call, channel |-> p.channel, message |-> p.message,
                 writesBefore |-> Len(cacheLog), heard |-> subscriberUp])
          /\ deliveries' = deliveries \o Invocations(p)
    /\ UNCHANGED <<nextCall, participantsKey, clientConn, subscriberUp, subscriptions,
                   pendingSubs, listeners, cacheLog>>
    /\ UNCHANGED <<lifeVars, modVars, auxVars, cacheVars, rtVars, cliVars>>

\* lines 181-184 and 214-217: the PUBLISH is rejected and the rejection caught
PublishFail ==
    /\ \E i \in Fifo(publisherConn) : publisherConn' = RemoveAt(publisherConn, i)
    /\ UNCHANGED <<nextCall, participantsKey, clientConn, subscriberUp, subscriptions,
                   pendingSubs, listeners, cacheLog, channelLog, deliveries>>
    /\ UNCHANGED <<lifeVars, modVars, auxVars, cacheVars, rtVars, cliVars>>

\* lines 220-225: the call runs up to its await, the SUBSCRIBE is on its way
SubscribeStart(sessionId, callback) ==
    /\ redisConnected
    /\ Len(listeners) + Len(pendingSubs) < MaxListeners
    /\ pendingSubs' = Append(pendingSubs,
            [sessionId |-> sessionId, channel |-> ChannelOf(sessionId),
             callback |-> callback])
    /\ UNCHANGED <<nextCall, participantsKey, clientConn, publisherConn, subscriberUp,
                   subscriptions, listeners, cacheLog, channelLog, deliveries>>
    /\ UNCHANGED <<lifeVars, modVars, auxVars, cacheVars, rtVars, cliVars>>

\* lines 225-237: the SUBSCRIBE is answered and one more 'message' listener is
\* attached to the shared subscriber
SubscribeDone ==
    /\ subscriberUp
    /\ \E i \in Fifo(pendingSubs) :
          /\ subscriptions' = subscriptions \cup {pendingSubs[i].channel}
          /\ listeners' = Append(listeners, pendingSubs[i])
          /\ pendingSubs' = RemoveAt(pendingSubs, i)
    /\ UNCHANGED <<nextCall, participantsKey, clientConn, publisherConn, subscriberUp,
                   cacheLog, channelLog, deliveries>>
    /\ UNCHANGED <<lifeVars, modVars, auxVars, cacheVars, rtVars, cliVars>>

\* lines 238-241: the SUBSCRIBE is rejected and the rejection caught
SubscribeFail ==
    /\ \E i \in Fifo(pendingSubs) : pendingSubs' = RemoveAt(pendingSubs, i)
    /\ UNCHANGED <<nextCall, participantsKey, clientConn, publisherConn, subscriberUp,
                   subscriptions, listeners, cacheLog, channelLog, deliveries>>
    /\ UNCHANGED <<lifeVars, modVars, auxVars, cacheVars, rtVars, cliVars>>

\* lines 90-93 for the subscriber: it connects, and subscribes again to the channels
\* it had
SubscriberConnect ==
    /\ ~subscriberUp
    /\ subscriberUp' = TRUE
    /\ UNCHANGED <<nextCall, participantsKey, clientConn, publisherConn, subscriptions,
                   pendingSubs, listeners, cacheLog, channelLog, deliveries>>
    /\ UNCHANGED <<lifeVars, modVars, auxVars, cacheVars, rtVars, cliVars>>

\* lines 95-103 for the subscriber: isConnected follows the client only
SubscriberClose ==
    /\ subscriberUp
    /\ subscriberUp' = FALSE
    /\ UNCHANGED <<nextCall, participantsKey, clientConn, publisherConn, subscriptions,
                   pendingSubs, listeners, cacheLog, channelLog, deliveries>>
    /\ UNCHANGED <<lifeVars, modVars, auxVars, cacheVars, rtVars, cliVars>>

\* concurrent updateSessionParticipants calls
NextOrder ==
    \/ RedisConnect
    \/ RedisDisconnect
    \/ \E s \in BusSessions, l \in ParticipantLists : UpdateStart(s, l)
    \/ SetexServe
    \/ SetexFail
    \/ UpdateResume
    \/ PublishServe
    \/ PublishFail

SpecOrder == Init /\ [][NextOrder]_vars

\* the position of a call's write among the writes of the participants keys
CommitIndex(call) == CHOOSE k \in 1..Len(cacheLog) : cacheLog[k].call = call

\* C24: within one session's channel the participants_updated events are published
\* in the order in which the lists were written to the cache, and each carries the
\* list its call wrote; so the event published last carries the list written last
C24_PublishOrderIsCommitOrder ==
    /\ \A i \in 1..Len(channelLog) :
          /\ \E k \in 1..Len(cacheLog) : cacheLog[k].call = channelLog[i].call
          /\ Parse(channelLog[i].message).type = "participants_updated"
          /\ Parse(channelLog[i].message).data
                = cacheLog[CommitIndex(channelLog[i].call)].value
    /\ \A i, j \in 1..Len(channelLog) :
          i < j /\ channelLog[i].channel = channelLog[j].channel =>
              CommitIndex(channelLog[i].call) < CommitIndex(channelLog[j].call)

\* two calls on one session ran concurrently, with different lists: the second
\* had written the cache before the event of the first was published
C24_Witness ==
    \E i, j \in 1..Len(channelLog) :
        /\ i < j
        /\ channelLog[i].channel = channelLog[j].channel
        /\ channelLog[i].writesBefore >= CommitIndex(channelLog[j].call)
        /\ Parse(channelLog[i].message).data # Parse(channelLog[j].message).data
        /\ participantsKey["s1"] = Parse(channelLog[j].message).data

\* subscribers of the session channels, and events published to them
NextBus ==
    \/ RedisConnect
    \/ SubscriberConnect
    \/ SubscriberClose
    \/ \E s \in BusSessions, cb \in Callbacks : SubscribeStart(s, cb)
    \/ SubscribeDone
    \/ SubscribeFail
    \/ \E s \in BusSessions, e \in EventTypes : PublishToSession(s, e, << "p1" >>)
    \/ PublishServe
    \/ PublishFail

SpecBus == Init /\ [][NextBus]_vars

\* C25: an event published on a session channel reaches a subscriber's callback at
\* most once, however often subscribeToSession was called for the session or with
\* the callback; and an event published while the subscriber was disconnected is
\* never delivered
C25_AtMostOnce ==
    /\ \A i, j \in 1..Len(deliveries) :
          deliveries[i].callback = deliveries[j].callback
            /\ deliveries[i].call = deliveries[j].call => i = j
    /\ \A i \in 1..Len(deliveries) :
          \E k \in 1..Len(channelLog) :
              channelLog[k].call = deliveries[i].call /\ channelLog[k].heard

\* C26: a callback is invoked only with events published to the channel of the
\* session it was registered for: every invocation is by a listener whose session
\* is the session of the event, and a callback never registered for a session is
\* never invoked with an event of that session
C26_SessionsIndependent ==
    \A i \in 1..Len(deliveries) :
        /\ deliveries[i].channel = ChannelOf(deliveries[i].registeredFor)
        /\ Parse(channelLog[CHOOSE k \in 1..Len(channelLog) :
                     channelLog[k].call = deliveries[i].call].message)
              = deliveries[i].event
        /\ \E k \in 1..Len(listeners) :
              /\ listeners[k].callback = deliveries[i].callback
              /\ ChannelOf(listeners[k].sessionId) = deliveries[i].channel

\* one subscriber connection holds listeners of both sessions, an event of one
\* session was published, and a callback of that session was invoked
C26_Witness ==
    /\ \E k \in 1..Len(listeners) : listeners[k].sessionId = "s1"
    /\ \E k \in 1..Len(listeners) : listeners[k].sessionId = "s2"
    /\ \E i \in 1..Len(deliveries) : deliveries[i].registeredFor = "s2"
    /\ \E k \in 1..Len(channelLog) :
          channelLog[k].channel = ChannelOf("s2") /\ channelLog[k].heard

\* ------------------------------------ session creation and the status endpoint
\* the token capability fails, and recovers
AgoraFail ==
    /\ agoraUp
    /\ agoraUp' = FALSE
    /\ UNCHANGED <<sessionStateKey, createResp, statusResp>>
    /\ UNCHANGED <<lifeVars, modVars, auxVars, busVars, rtVars, cliVars>>

AgoraRecover ==
    /\ ~agoraUp
    /\ agoraUp' = TRUE
    /\ UNCHANGED <<sessionStateKey, createResp, statusResp>>
    /\ UNCHANGED <<lifeVars, modVars, auxVars, busVars, rtVars, cliVars>>

\* redisService lines 153-164
getSessionState(sessionId) ==
    IF ~redisConnected \/ sessionId \notin DOMAIN sessionStateKey THEN NoState
    ELSE sessionStateKey[sessionId]

\* routes lines 543-551: the state rebuilt from the persisted session
StoreState(session) ==
    [ found |-> TRUE,
      status |-> session.status,
      isScheduled |-> session.scheduledAt # NoTime,
      scheduledDateTime |-> IF session.scheduledAt = NoTime THEN Undefined
                            ELSE ToISOString(session.scheduledAt),
      currentParticipants |-> Number(session.currentParticipants),
      maxParticipants |-> Number(session.maxParticipants) ]

\* a >= b of JavaScript: false when an operand is undefined
GreaterOrEqual(a, b) == IF a = Undefined \/ b = Undefined THEN FALSE ELSE a[1] >= b[1]

\* routes lines 555-583
StatusBody(sessionState, t) ==
    LET timed == sessionState.isScheduled /\ sessionState.scheduledDateTime # Undefined
        timeUntilStart == IF timed THEN FromISOString(sessionState.scheduledDateTime) - t
                          ELSE 0
    IN [ status |-> sessionState.status,
         isScheduled |-> sessionState.isScheduled,
         scheduledDateTime |-> sessionState.scheduledDateTime,
         timeUntilStart |-> timeUntilStart,
         canJoin |-> ~(timed /\ timeUntilStart > JoinWindowMs),
         currentParticipants |-> sessionState.currentParticipants,
         maxParticipants |-> sessionState.maxParticipants,
         isFull |-> GreaterOrEqual(sessionState.currentParticipants,
                                   sessionState.maxParticipants) ]

\* router.get('/:sessionId/status'), lines 529-589
GetStatus(sessionId) ==
    /\ LET cached == getSessionState(sessionId)
           session == FindSession(sessionId)
       IN statusResp' =
            IF cached.found
              THEN [status |-> 200, sessionId |-> sessionId, served |-> "cache",
                    body |-> StatusBody(cached, now)]
            ELSE IF ~session.found
              THEN [status |-> 404, sessionId |-> sessionId, served |-> "none"]
            ELSE [status |-> 200, sessionId |-> sessionId, served |-> "store",
                  body |-> StatusBody(StoreState(session), now)]
    /\ UNCHANGED <<agoraUp, sessionStateKey, createResp>>
    /\ UNCHANGED <<lifeVars, modVars, auxVars, busVars, rtVars, cliVars>>

NextCreate ==
    \/ Tick
    \/ RedisConnect
    \/ RedisDisconnect
    \/ AgoraFail
    \/ AgoraRecover
    \/ \E t \in ScheduleChoices, m \in 1..MaxCap : CreateSession(Host, t, m, TRUE)
    \/ \E sid \in 1..(MaxSessions + 1) : GetStatus(sid)

SpecCreate == Init /\ [][NextCreate]_vars

\* the fields of the status answer the cache and the persisted session must agree on
Compared(body) ==
    << body.status, body.isScheduled, body.scheduledDateTime, body.currentParticipants,
       body.maxParticipants, body.isFull >>

\* C27: the status endpoint answers with the same status, isScheduled,
\* scheduledDateTime, currentParticipants, maxParticipants and isFull from a cache
\* hit as it would rebuild from the persisted session on a miss
C27_CacheHitEqualsRebuild ==
    statusResp.served = "cache" =>
        Compared(statusResp.body)
          = Compared(StatusBody(StoreState(sessions[statusResp.sessionId]), now))

\* C28: when the token issuance throws, creation is not aborted: a valid request
\* is answered 200, the session is persisted, and both carry the placeholder tokens
C28_TokenFailureNotSurfaced ==
    [][\A u \in Users, t \in ScheduleChoices, m \in 1..MaxCap :
          ~agoraUp /\ (t = NoTime \/ t > now) /\ CreateSession(u, t, m, TRUE) =>
              /\ createResp'.status = 200
              /\ createResp'.agoraToken = "temp_token_"
              /\ createResp'.hostToken = "temp_host_token_"
              /\ Len(sessions') = Len(sessions) + 1
              /\ sessions'[createResp'.id].agoraToken = "temp_token_"
              /\ sessions'[createResp'.id].hostToken = "temp_host_token_"
              /\ sessions'[createResp'.id].hostId = u
      ]_vars

\* a session created while the token issuance was failing
C28_Witness ==
    /\ ~agoraUp
    /\ createResp.status = 200
    /\ createResp.agoraToken = "temp_token_"
    /\ Len(sessions) = 1
    /\ sessions[1].hostToken = "temp_host_token_"

\* ------------------------------------------------ RealTimeService (browser)
\* apiEndpoints.ts lines 719, 728-730, 963
maxReconnectAttempts == 10
reconnectionDelay == 1000
reconnectionDelayMax == 10000
maxAge == 5 * 60 * 1000

\* the delay without the cap of reconnectionDelayMax
Backoff_Uncapped(attempt) == reconnectionDelay * 2 ^ (attempt - 1)

\* lines 902-905
Backoff(attempt) == Min(reconnectionDelay * 2 ^ (attempt - 1), reconnectionDelayMax)

\* lines 892-916: the fields after handleReconnection; the callback of setTimeout
\* waits in timers
handleReconnection ==
    IF reconnectAttempts >= maxReconnectAttempts
      THEN [connectionState |-> "error", reconnectAttempts |-> reconnectAttempts,
            timers |-> timers]
      ELSE [connectionState |-> "reconnecting",
            reconnectAttempts |-> reconnectAttempts + 1,
            timers |-> Append(timers,
                [attempt |-> reconnectAttempts + 1,
                 delay |-> Backoff(reconnectAttempts + 1)])]

\* the timers the model keeps track of are bounded
MaySchedule == reconnectAttempts < maxReconnectAttempts => Len(timers) < MaxTimers

\* lines 961-980, run at time t with socket.connected = connected: the queue left,
\* and the ids handed to socket.emit, in order
processMessageQueue(t, connected) ==
    LET young == SelectSeq(messageQueue,
                     LAMBDA m : t - m.timestamp < maxAge /\ m.retries < 3)
        tried == [k \in 1..Len(young) |->
                     IF connected THEN [young[k] EXCEPT !.retries = @ + 1]
                     ELSE young[k]]
    IN [ queue |-> SelectSeq(tried, LAMBDA m : m.retries >= 3),
         emitted |-> IF connected THEN [k \in 1..Len(young) |-> young[k].id]
                     ELSE << >> ]

\* lines 751-760: `this.socket = io(...)` takes the place of the socket that
\* this.socket named, which is not disconnected and keeps its handlers
Abandon(previous, abandoned) ==
    IF previous.exists /\ Len(abandoned) < MaxOrphans
      THEN Append(abandoned, previous.connected)
      ELSE abandoned

\* lines 742-770: connect()
RtConnect ==
    /\ connectionState \notin {"connected", "connecting"}
    /\ connectionState' = "connecting"
    /\ socket' = [exists |-> TRUE, connected |-> FALSE]
    /\ orphans' = Abandon(socket, orphans)
    /\ UNCHANGED <<messageQueue, reconnectAttempts, timers, nextEvent, clientNow, sent>>
    /\ UNCHANGED <<notRt, received>>

\* lines 765-769: io() throws
RtConnectThrows ==
    /\ connectionState \notin {"connected", "connecting"}
    /\ connectionState' = "error"
    /\ UNCHANGED <<socket, messageQueue, reconnectAttempts, timers, nextEvent,
                   clientNow, sent>>
    /\ UNCHANGED <<lifeVars, modVars, auxVars, busVars, cacheVars, cliVars>>

\* lines 796-803: the socket's 'connect' event
OnConnect ==
    /\ socket.exists /\ ~socket.connected
    /\ LET processed == processMessageQueue(clientNow, TRUE) IN
          /\ messageQueue' = processed.queue
          /\ sent' = sent \o processed.emitted
    /\ socket' = [socket EXCEPT !.connected = TRUE]
    /\ connectionState' = "connected"
    /\ reconnectAttempts' = 0
    /\ UNCHANGED <<timers, nextEvent, clientNow>>
    /\ UNCHANGED <<lifeVars, modVars, auxVars, busVars, cacheVars, cliVars>>

DisconnectReasons == {"io server disconnect", "transport close"}

\* lines 805-817: the socket's 'disconnect' event
OnDisconnect(reason) ==
    /\ socket.exists /\ socket.connected
    /\ reason # "io server disconnect" => MaySchedule
    /\ socket' = [socket EXCEPT !.connected = FALSE]
    /\ IF reason = "io server disconnect"
         THEN /\ connectionState' = "disconnected"
              /\ UNCHANGED <<reconnectAttempts, timers>>
         ELSE /\ connectionState' = handleReconnection.connectionState
              /\ reconnectAttempts' = handleReconnection.reconnectAttempts
              /\ timers' = handleReconnection.timers
    /\ UNCHANGED <<messageQueue, nextEvent, clientNow, sent>>
    /\ UNCHANGED <<lifeVars, modVars, auxVars, busVars, cacheVars, cliVars>>

\* lines 819-823: the socket's 'connect_error' event
OnConnectError ==
    /\ socket.exists /\ ~socket.connected
    /\ MaySchedule
    /\ connectionState' = handleReconnection.connectionState
    /\ reconnectAttempts' = handleReconnection.reconnectAttempts
    /\ timers' = handleReconnection.timers
    /\ UNCHANGED <<socket, messageQueue, nextEvent, clientNow, sent>>
    /\ UNCHANGED <<lifeVars, modVars, auxVars, busVars, cacheVars, cliVars>>

\* lines 909-915: a callback of setTimeout runs
TimerFire ==
    /\ \E i \in 1..Len(timers) : timers' = RemoveAt(timers, i)
    /\ IF connectionState = "reconnecting"
         THEN /\ connectionState' = "connecting"
              /\ socket' = [exists |-> TRUE, connected |-> FALSE]
              /\ orphans' = Abandon(socket, orphans)
         ELSE UNCHANGED <<connectionState, socket, orphans>>
    /\ UNCHANGED <<messageQueue, reconnectAttempts, nextEvent, clientNow, sent>>
    /\ UNCHANGED <<notRt, received>>

\* lines 775-787: disconnect(); socket.disconnect() of a connected socket runs the
\* 'disconnect' handler, with a reason that is not the server's, before it returns
RtDisconnect ==
    /\ socket.exists /\ socket.connected => MaySchedule
    /\ timers' = IF socket.exists /\ socket.connected THEN handleReconnection.timers
                 ELSE timers
    /\ socket' = [exists |-> FALSE, connected |-> FALSE]
    /\ connectionState' = "disconnected"
    /\ messageQueue' = << >>
    /\ reconnectAttempts' = 0
    /\ UNCHANGED <<nextEvent, clientNow, sent>>
    /\ UNCHANGED <<lifeVars, modVars, auxVars, busVars, cacheVars, cliVars>>

\* lines 1005-1019: emit(event, data); the events are numbered as they are passed
RtEmit ==
    /\ nextEvent < MaxEvents
    /\ nextEvent' = nextEvent + 1
    /\ IF socket.exists /\ socket.connected
         THEN /\ sent' = Append(sent, nextEvent + 1)
              /\ UNCHANGED messageQueue
         ELSE /\ messageQueue' = Append(messageQueue,
                     [id |-> nextEvent + 1, timestamp |-> clientNow, retries |-> 0])
              /\ UNCHANGED sent
    /\ UNCHANGED <<connectionState, socket, reconnectAttempts, timers, clientNow>>
    /\ UNCHANGED <<lifeVars, modVars, auxVars, busVars, cacheVars, cliVars>>

\* time passes in the browser
ClientTick ==
    /\ clientNow < MaxClientTicks * TickMs
    /\ clientNow' = clientNow + TickMs
    /\ UNCHANGED <<connectionState, socket, messageQueue, reconnectAttempts, timers,
                   nextEvent, sent>>
    /\ UNCHANGED <<lifeVars, modVars, auxVars, busVars, cacheVars, cliVars>>

NextRt ==
    \/ RtConnect
    \/ RtConnectThrows
    \/ OnConnect
    \/ \E reason \in DisconnectReasons : OnDisconnect(reason)
    \/ OnConnectError
    \/ TimerFire
    \/ RtDisconnect
    \/ RtEmit
    \/ ClientTick

SpecRt == Init /\ [][NextRt]_vars

\* C29: an event passed to emit() while the socket is not connected stays in the
\* queue until the next connect, where it is sent unless it is 5 minutes old or
\* older: a message leaves the queue only by being handed to socket.emit or by
\* having reached that age; and the events are sent at most once, in the order
\* in which they were passed to emit()
C29_QueuedSentOnce ==
    [][/\ \A k \in 1..Len(messageQueue) :
             LET m == messageQueue[k] IN
             (\A j \in 1..Len(messageQueue') : messageQueue'[j].id # m.id) =>
                 \/ \E j \in 1..Len(sent') : sent'[j] = m.id
                 \/ clientNow - m.timestamp >= maxAge
       /\ \A i, j \in 1..Len(sent') : i < j => sent'[i] < sent'[j]
      ]_vars

\* the delay of the n-th attempt as the claim states it
StatedDelay(n) ==
    IF n = 1 THEN 1000 ELSE IF n = 2 THEN 2000 ELSE IF n = 3 THEN 4000
    ELSE IF n = 4 THEN 8000 ELSE 10000

\* C30: every reconnection attempt is the n-th, n from 1 to 10, scheduled after
\* min(1000 * 2^(n-1), 10000) ms on a connect error or a disconnect that is not
\* the server's; reconnectAttempts never exceeds 10; after 10 attempts a further
\* failure leaves the state error and schedules nothing; a connect sets
\* reconnectAttempts to 0
C30_BoundedBackoff ==
    /\ [](/\ reconnectAttempts \in 0..10
          /\ \A k \in 1..Len(timers) :
                /\ timers[k].attempt \in 1..10
                /\ timers[k].delay = StatedDelay(timers[k].attempt))
    /\ [][/\ OnConnectError \/ OnDisconnect("transport close") =>
                IF reconnectAttempts = 10
                  THEN connectionState' = "error" /\ timers' = timers
                            /\ reconnectAttempts' = 10
                  ELSE /\ connectionState' = "reconnecting"
                       /\ reconnectAttempts' = reconnectAttempts + 1
                       /\ timers' = Append(timers,
                              [attempt |-> reconnectAttempts + 1,
                               delay |-> StatedDelay(reconnectAttempts + 1)])
          /\ OnDisconnect("io server disconnect") =>
                timers' = timers /\ reconnectAttempts' = reconnectAttempts
          /\ OnConnect => reconnectAttempts' = 0 /\ connectionState' = "connected"
         ]_vars

\* ten attempts have failed: the state is error and no callback is waiting
C30_Witness ==
    /\ reconnectAttempts = 10
    /\ connectionState = "error"
    /\ timers = << >>
    /\ socket.exists /\ ~socket.connected

\* ------------------------------------------------------------------------
\* ApiClient: the response interceptor and the token refresh
\* (src/components/sanctuary/ScheduledSessionWaiting.tsx lines 1021-1157)

Range(q) == {q[i] : i \in 1..Len(q)}

\* lines 1147-1157: processQueue settles every queued request and empties the
\* queue; a resolved entry runs `this.instance(originalRequest)` (line 1087)
processQueue_AlwaysResolve(reqs, queue, error) ==
    [r \in ApiReqIds |->
        IF r \in Range(queue) THEN [reqs[r] EXCEPT !.pc = "inflight"] ELSE reqs[r]]

processQueue(reqs, queue, error) ==
    [r \in ApiReqIds |->
        IF r \in Range(queue)
          THEN IF error THEN [reqs[r] EXCEPT !.pc = "rejected"]
               ELSE [reqs[r] EXCEPT !.pc = "inflight"]
          ELSE reqs[r]]

\* line 1082: status === 401 && !originalRequest._retry && !originalRequest.skipAuth
Refreshable(request) == ~request.retry /\ ~request.skipAuth

\* a request goes out through this.instance
ApiSend(r, skipAuth) ==
    /\ apiReq[r].pc = "idle"
    /\ apiReq' = [apiReq EXCEPT ![r] = [@ EXCEPT !.pc = "inflight",
                                                 !.skipAuth = skipAuth]]
    /\ UNCHANGED <<isRefreshing, failedQueue, refreshToken, refreshesInFlight,
                   lastRefresh, notApi>>

\* lines 1066-1077: the success handler of the response interceptor
ApiOk(r) ==
    /\ apiReq[r].pc = "inflight"
    /\ apiReq' = [apiReq EXCEPT ![r] = [@ EXCEPT !.pc = "done", !.status = 200]]
    /\ UNCHANGED <<isRefreshing, failedQueue, refreshToken, refreshesInFlight,
                   lastRefresh, notApi>>

\* lines 1078-1081, 1131-1139: an error other than a refreshable 401 is rejected
ApiError(r) ==
    /\ apiReq[r].pc = "inflight"
    /\ apiReq' = [apiReq EXCEPT ![r] = [@ EXCEPT !.pc = "rejected", !.status = 500]]
    /\ UNCHANGED <<isRefreshing, failedQueue, refreshToken, refreshesInFlight,
                   lastRefresh, notApi>>

\* lines 1078-1129: the error handler on a 401, up to its await (line 1097) or,
\* when it does not reach the await, to its end
ApiUnauthorized(r) ==
    /\ apiReq[r].pc = "inflight"
    /\ apiReq[r].attempts < MaxAttempts
    /\ LET got == [apiReq[r] EXCEPT !.status = 401, !.attempts = @ + 1]
       IN IF ~Refreshable(apiReq[r])
            THEN /\ apiReq' = [apiReq EXCEPT ![r] = [got EXCEPT !.pc = "rejected"]]
                 /\ UNCHANGED <<isRefreshing, failedQueue, refreshToken,
                                refreshesInFlight, lastRefresh>>
          ELSE IF isRefreshing
            THEN /\ failedQueue' = Append(failedQueue, r)
                 /\ apiReq' = [apiReq EXCEPT ![r] = [got EXCEPT !.pc = "queued"]]
                 /\ UNCHANGED <<isRefreshing, refreshToken, refreshesInFlight,
                                lastRefresh>>
          ELSE IF refreshToken
            THEN /\ isRefreshing' = TRUE
                 /\ refreshesInFlight' = refreshesInFlight + 1
                 /\ apiReq' = [apiReq EXCEPT
                                 ![r] = [got EXCEPT !.pc = "refreshing", !.retry = TRUE]]
                 /\ UNCHANGED <<failedQueue, refreshToken, lastRefresh>>
          ELSE \* no refresh token: line 1118 throws, lines 1119-1128 run at once
                 /\ apiReq' = [processQueue(apiReq, failedQueue, TRUE) EXCEPT
                                 ![r] = [got EXCEPT !.pc = "rejected", !.retry = TRUE]]
                 /\ failedQueue' = << >>
                 /\ isRefreshing' = FALSE
                 /\ lastRefresh' = "failed"
                 /\ UNCHANGED <<refreshToken, refreshesInFlight>>
    /\ UNCHANGED notApi

\* lines 1102-1115, 1126-1128: the refresh answered with a token
RefreshOk(r) ==
    /\ apiReq[r].pc = "refreshing"
    /\ refreshesInFlight' = refreshesInFlight - 1
    /\ apiReq' = [processQueue(apiReq, failedQueue, FALSE) EXCEPT
                    ![r] = [apiReq[r] EXCEPT !.pc = "inflight"]]
    /\ failedQueue' = << >>
    /\ isRefreshing' = FALSE
    /\ lastRefresh' = "ok"
    /\ UNCHANGED <<refreshToken, notApi>>

\* lines 1118-1128: the refresh was rejected or carried no token
RefreshFail(r) ==
    /\ apiReq[r].pc = "refreshing"
    /\ refreshesInFlight' = refreshesInFlight - 1
    /\ apiReq' = [processQueue(apiReq, failedQueue, TRUE) EXCEPT
                    ![r] = [apiReq[r] EXCEPT !.pc = "rejected"]]
    /\ failedQueue' = << >>
    /\ refreshToken' = FALSE
    /\ isRefreshing' = FALSE
    /\ lastRefresh' = "failed"
    /\ UNCHANGED notApi

NextApi ==
    \/ \E r \in ApiReqIds, skipAuth \in BOOLEAN : ApiSend(r, skipAuth)
    \/ \E r \in ApiReqIds : ApiOk(r)
    \/ \E r \in ApiReqIds : ApiError(r)
    \/ \E r \in ApiReqIds : ApiUnauthorized(r)
    \/ \E r \in ApiReqIds : RefreshOk(r)
    \/ \E r \in ApiReqIds : RefreshFail(r)

\* the refresh request is answered or times out (API_CONFIG.timeout, line 974)
SpecApi ==
    Init /\ [][NextApi]_vars
         /\ WF_vars(\E r \in ApiReqIds : RefreshOk(r) \/ RefreshFail(r))

AlertInputs ==
    {AlertData(s, p, checkEmergencyContent(m)) :
        s \in ModSessionIds, p \in ParticipantIds,
        m \in {c \in AlertMessages : checkEmergencyContent(c).isEmergency}}

EmEntry(kind, call, value) ==
    [kind |-> kind, call |-> call.id, sessionId |-> call.sessionId, value |-> value]

\* line 320: the call returns false at once when the client is not connected;
\* otherwise it runs up to the await of line 325
SetAlertStart(sessionId, alertData) ==
    /\ emCall.pc = "idle"
    /\ emCall.id < MaxAlertCalls
    /\ LET call == [pc |-> "setex", id |-> emCall.id + 1, sessionId |-> sessionId,
                    alertData |-> alertData]
       IN IF redisConnected
            THEN emCall' = call /\ UNCHANGED emLog
            ELSE /\ emCall' = [call EXCEPT !.pc = "idle"]
                 /\ emLog' = Append(emLog, EmEntry("return", call, FALSE))
    /\ UNCHANGED <<modVars, notEm>>

\* line 325: the SETEX is served, and the call goes on to line 328
SetAlertSetex ==
    /\ emCall.pc = "setex"
    /\ alerts' = [alerts EXCEPT ![emCall.sessionId] = emCall.alertData]
    /\ emLog' = Append(emLog, EmEntry("store", emCall, emCall.alertData))
    /\ emCall' = [emCall EXCEPT !.pc = "publish"]
    /\ UNCHANGED <<geminiEnabled, redisConnected, published, mod, notEm>>

\* lines 325, 330-332: the SETEX is rejected and the catch answers false
SetAlertSetexFail ==
    /\ emCall.pc = "setex"
    /\ emLog' = Append(emLog, EmEntry("return", emCall, FALSE))
    /\ emCall' = [emCall EXCEPT !.pc = "idle"]
    /\ UNCHANGED <<modVars, notEm>>

\* lines 328-329: the answer of publishToSession is awaited and not read
setEmergencyAlert(publishResult) == TRUE

\* lines 328-329 with 201-218: publishToSession returns false when the client is
\* not connected, and publishes otherwise
SetAlertPublish ==
    /\ emCall.pc = "publish"
    /\ IF redisConnected
         THEN /\ published' = published \cup
                     {[sessionId |-> emCall.sessionId, type |-> "emergency_alert",
                       data |-> emCall.alertData]}
              /\ emLog' = emLog \o
                     <<EmEntry("publish", emCall, emCall.alertData),
                       EmEntry("return", emCall, setEmergencyAlert(TRUE))>>
         ELSE /\ emLog' = Append(emLog, EmEntry("return", emCall, setEmergencyAlert(FALSE)))
              /\ UNCHANGED published
    /\ emCall' = [emCall EXCEPT !.pc = "idle"]
    /\ UNCHANGED <<geminiEnabled, redisConnected, alerts, mod, notEm>>

\* lines 212-217: the PUBLISH is rejected; publishToSession catches the rejection
\* and answers false
SetAlertPublishFail ==
    /\ emCall.pc = "publish"
    /\ redisConnected
    /\ emLog' = Append(emLog, EmEntry("return", emCall, setEmergencyAlert(FALSE)))
    /\ emCall' = [emCall EXCEPT !.pc = "idle"]
    /\ UNCHANGED <<modVars, notEm>>

\* RedisConnect, RedisDisconnect and AlertExpire leave the call and its history alone
NextEm ==
    \/ \E a \in AlertInputs : SetAlertStart(a.sessionId, a)
    \/ SetAlertSetex
    \/ SetAlertSetexFail
    \/ SetAlertPublish
    \/ SetAlertPublishFail
    \/ RedisConnect
    \/ RedisDisconnect
    \/ \E s \in ModSessionIds : AlertExpire(s)

SpecEm == Init /\ [][NextEm]_vars

EmEntries(kind, id) == {i \in 1..Len(emLog) : emLog[i].kind = kind /\ emLog[i].call = id}

\* C32: whenever setEmergencyAlert stores an alert for a session, exactly one
\* emergency_alert event carrying that alert is published on the session's
\* channel, after the store, by the time the call returns; and the call returns
\* true only if both the store and the publish happened
C32_StoreThenPublish ==
    \A r \in 1..Len(emLog) :
        emLog[r].kind = "return"
        => LET stores == EmEntries("store", emLog[r].call)
               publishes == EmEntries("publish", emLog[r].call)
           IN /\ stores # {}
                 => /\ Cardinality(publishes) = 1
                    /\ \A i \in stores, j \in publishes :
                          /\ i < j
                          /\ emLog[j].value = emLog[i].value
                          /\ emLog[j].sessionId = emLog[i].sessionId
              /\ emLog[r].value => stores # {} /\ publishes # {}

\* ------------------------------------------------------------------------
\* RealTimeService: the handlers that setupSocketEventHandlers (lines 792-849)
\* attached to a socket stay attached when connect() makes another socket

\* lines 796-803: the 'connect' event of an abandoned socket; processMessageQueue
\* looks at this.socket
OrphanConnect(i) ==
    /\ i \in 1..Len(orphans) /\ ~orphans[i]
    /\ orphans' = [orphans EXCEPT ![i] = TRUE]
    /\ LET processed == processMessageQueue(clientNow, socket.exists /\ socket.connected) IN
          /\ messageQueue' = processed.queue
          /\ sent' = sent \o processed.emitted
    /\ connectionState' = "connected"
    /\ reconnectAttempts' = 0
    /\ UNCHANGED <<socket, timers, nextEvent, clientNow, received, notRt>>

\* lines 805-817: the 'disconnect' event of an abandoned socket
OrphanDisconnect(i, reason) ==
    /\ i \in 1..Len(orphans) /\ orphans[i]
    /\ reason # "io server disconnect" => MaySchedule
    /\ orphans' = [orphans EXCEPT ![i] = FALSE]
    /\ IF reason = "io server disconnect"
         THEN /\ connectionState' = "disconnected"
              /\ UNCHANGED <<reconnectAttempts, timers>>
         ELSE /\ connectionState' = handleReconnection.connectionState
              /\ reconnectAttempts' = handleReconnection.reconnectAttempts
              /\ timers' = handleReconnection.timers
    /\ UNCHANGED <<socket, messageQueue, nextEvent, clientNow, sent, received, notRt>>

\* lines 819-823: the 'connect_error' event of an abandoned socket
OrphanConnectError(i) ==
    /\ i \in 1..Len(orphans) /\ ~orphans[i]
    /\ MaySchedule
    /\ connectionState' = handleReconnection.connectionState
    /\ reconnectAttempts' = handleReconnection.reconnectAttempts
    /\ timers' = handleReconnection.timers
    /\ UNCHANGED <<socket, messageQueue, nextEvent, clientNow, sent, orphans, received,
                   notRt>>

\* the sockets of this service that are connected to the server
ConnectedSockets ==
    (IF socket.exists /\ socket.connected THEN 1 ELSE 0)
    + Cardinality({i \in 1..Len(orphans) : orphans[i]})

\* lines 853-886 and 1049-1060: the server sends an event to the client; every
\* connected socket hands it to emitLocal, which runs the listeners
ServerEvent(e) ==
    /\ received[e] = 0
    /\ ConnectedSockets >= 1
    /\ received' = [received EXCEPT ![e] = ConnectedSockets]
    /\ UNCHANGED <<rtVars, orphans, notRt>>

NextSock ==
    \/ RtConnect
    \/ RtConnectThrows
    \/ OnConnect
    \/ \E reason \in DisconnectReasons : OnDisconnect(reason)
    \/ OnConnectError
    \/ TimerFire
    \/ RtDisconnect
    \/ RtEmit
    \/ \E i \in 1..MaxOrphans : OrphanConnect(i)
    \/ \E i \in 1..MaxOrphans, reason \in DisconnectReasons : OrphanDisconnect(i, reason)
    \/ \E i \in 1..MaxOrphans : OrphanConnectError(i)
    \/ \E e \in ServerEvents : ServerEvent(e)

SpecSock == Init /\ [][NextSock]_vars

\* C33: disconnect() leaves the state disconnected, the queue empty and
\* reconnectAttempts 0; and from then on, as long as connect() is not invoked,
\* the state stays disconnected and no socket is created, whatever timers were
\* scheduled before or during the call
C33_DisconnectIsFinal ==
    [][/\ RtDisconnect =>
             /\ connectionState' = "disconnected"
             /\ messageQueue' = << >>
             /\ reconnectAttempts' = 0
             /\ ~socket'.exists
       /\ (/\ connectionState = "disconnected"
           /\ ~socket.exists
           /\ ~RtConnect
           /\ ~RtConnectThrows)
          => connectionState' = "disconnected" /\ ~socket'.exists
      ]_vars

\* ------------------------------------------------------------------------
\* the use count next to the acknowledgments

\* routes lines 431 and 463-466: invitation.incrementUsage rejects after the
\* Acknowledgment was saved; the catch answers 500
JoinIncrementFail(r) ==
    /\ req[r].pc = "ackSaved"
    /\ req' = [req EXCEPT ![r] = Done(Resp("failed", 500))]
    /\ UNCHANGED <<now, sessions, invitations, acks, nextAnon, modVars, auxVars, netVars>>

NextUse ==
    \/ Tick
    \/ \E a \in BOOLEAN : CreateSession(Host, NoTime, MaxCap, a)
    \/ \E m \in {Unlimited, 2}, k \in BOOLEAN : CreateInvitation(Host, 1, m, 24, k)
    \/ \E r \in ReqIds, u \in {Guest, NoUser}, k \in BOOLEAN : JoinStart(r, 1, u, k)
    \/ \E r \in ReqIds : JoinCheck(r)
    \/ \E r \in ReqIds : JoinDecide(r)
    \/ \E r \in ReqIds : JoinIncrement(r)
    \/ \E r \in ReqIds : JoinIncrementFail(r)

SpecUse == Init /\ [][NextUse]_vars

\* the Acknowledgment records created through invitation c
AcksThrough(c) == {i \in 1..Len(acks) : acks[i].invitationId = c}

\* C34: for every invitation, whenever no redemption stands between its save of
\* the Acknowledgment and its answer, currentUses equals the number of usageLog
\* entries and the number of Acknowledgment records created through the invitation
C34_UsesMatchAcknowledgments ==
    (\A r \in ReqIds : req[r].pc # "ackSaved")
    => \A c \in Codes :
          /\ invitations[c].currentUses = Len(invitations[c].usageLog)
          /\ invitations[c].currentUses = Cardinality(AcksThrough(c))

\* ------------------------------------------------------------------------
\* the participant counter next to the participant list

\* C35: in every state of every session, currentParticipants equals the number of
\* entries of the participants list, for immediate and for scheduled sessions,
\* from creation onward and after every admission
C35_CounterMatchesList ==
    \A sid \in 1..Len(sessions) :
        sessions[sid].currentParticipants = Len(sessions[sid].participants)

\* ------------------------------------------------------------------------
\* AIModerationService.updateModerationLevel (routes lines 938-953) and the
\* session:<sessionId> key

\* a field that an object does not have reads as undefined
NoStatus == "undefined"

\* line 943: `getSessionState(sessionId) || {}`; the fields the status endpoint
\* reads of an empty object
EmptyState ==
    [ found |-> TRUE, status |-> NoStatus, isScheduled |-> FALSE,
      scheduledDateTime |-> Undefined, currentParticipants |-> Undefined,
      maxParticipants |-> Undefined ]

\* line 944: sessionState.moderationLevel = newLevel
WithModerationLevel(sessionState, newLevel) ==
    [f \in DOMAIN sessionState \cup {"moderationLevel"} |->
        IF f = "moderationLevel" THEN newLevel ELSE sessionState[f]]

\* lines 938-953; every call of the RedisService returns at once, and writes
\* nothing, when the client is not connected (redisService lines 141, 154, 337)
UpdateModerationLevel(sessionId, newLevel) ==
    /\ metricsKey[sessionId] < MaxLevelChanges
    /\ LET cached == getSessionState(sessionId)
           sessionState == IF cached.found THEN cached ELSE EmptyState
       IN IF redisConnected
            THEN /\ metricsKey' = [metricsKey EXCEPT ![sessionId] = @ + 1]
                 /\ sessionStateKey' = [sessionStateKey EXCEPT ![sessionId] =
                        WithModerationLevel(sessionState, newLevel)]
            ELSE UNCHANGED <<metricsKey, sessionStateKey>>
    /\ UNCHANGED <<agoraUp, createResp, statusResp>>
    /\ UNCHANGED <<lifeVars, modVars, auxVars, busVars, rtVars, apiVars, emVars, sockVars,
                   rlVars, ssVars>>

\* redisService line 140: the key expires 86400 seconds after it was written
StateExpire(sessionId) ==
    /\ sessionStateKey[sessionId].found
    /\ sessionStateKey' = [sessionStateKey EXCEPT ![sessionId] = NoState]
    /\ UNCHANGED <<agoraUp, createResp, statusResp>>
    /\ UNCHANGED <<lifeVars, modVars, auxVars, busVars, rtVars, cliVars>>

NextLevel ==
    \/ Tick
    \/ RedisConnect
    \/ RedisDisconnect
    \/ \E t \in ScheduleChoices, m \in 1..MaxCap : CreateSession(Host, t, m, TRUE)
    \/ \E sid \in 1..MaxSessions, l \in ModerationLevels : UpdateModerationLevel(sid, l)
    \/ \E sid \in 1..MaxSessions : StateExpire(sid)
    \/ \E sid \in 1..(MaxSessions + 1) : GetStatus(sid)

SpecLevel == Init /\ [][NextLevel]_vars

\* C36: whenever getSessionState(id) returns a cached state of a session, that
\* state carries the status of the persisted session
C36_CachedStatusIsCurrent ==
    \A sid \in 1..Len(sessions) :
        getSessionState(sid).found
            => getSessionState(sid).status = sessions[sid].status

\* C37: an active alert held under a session's emergency key stays there until
\* its TTL elapses (nothing in the code resolves an alert): no step other than
\* the expiry removes or replaces it, a second crisis detection in the session
\* included
C37_ActiveAlertKept ==
    [][\A s \in ModSessionIds :
          (/\ alerts[s] # NoAlert
           /\ alerts[s].status = "active"
           /\ ~AlertExpire(s))
          => alerts'[s] = alerts[s]]_vars

\* ------------------------------------------------------------------------
\* RedisService.checkRateLimit (redisService.js lines 272-286), every call with
\* the same key, maxRequests and windowSeconds

\* line 274: the call returns true at once when the client is not connected;
\* otherwise it sends the INCR of line 277
RlStart(c) ==
    /\ rlCalls[c].pc = "idle"
    /\ rlCalls' = [rlCalls EXCEPT ![c] =
          IF redisConnected THEN [@ EXCEPT !.pc = "incr"]
          ELSE [@ EXCEPT !.pc = "done", !.result = TRUE]]
    /\ UNCHANGED <<rlKey, rlAllowed, notRl>>

\* lines 277-281: the INCR is served; a key that did not exist is created without
\* an expiry; the call whose INCR answered 1 goes on to the EXPIRE
RlIncr(c) ==
    /\ rlCalls[c].pc = "incr"
    /\ LET current == rlKey.count + 1 IN
          /\ rlKey' = [rlKey EXCEPT !.count = current]
          /\ rlCalls' = [rlCalls EXCEPT ![c] =
                [pc |-> IF current = 1 THEN "expire" ELSE "done",
                 current |-> current,
                 result |-> current <= MaxRequests]]
          /\ rlAllowed' = IF current <= MaxRequests THEN rlAllowed + 1 ELSE rlAllowed
    /\ UNCHANGED notRl

\* lines 277, 282-285: the INCR is rejected; the catch answers true
RlIncrFail(c) ==
    /\ rlCalls[c].pc = "incr"
    /\ rlCalls' = [rlCalls EXCEPT ![c] = [@ EXCEPT !.pc = "done", !.result = TRUE]]
    /\ UNCHANGED <<rlKey, rlAllowed, notRl>>

\* lines 278-281: the EXPIRE is served
RlExpire(c) ==
    /\ rlCalls[c].pc = "expire"
    /\ rlKey' = IF rlKey.count > 0 THEN [rlKey EXCEPT !.hasExpiry = TRUE] ELSE rlKey
    /\ rlCalls' = [rlCalls EXCEPT ![c] = [@ EXCEPT !.pc = "done"]]
    /\ UNCHANGED <<rlAllowed, notRl>>

\* lines 279, 282-285: the EXPIRE is rejected; the catch answers true, and the key
\* stays as the INCR left it
RlExpireFail(c) ==
    /\ rlCalls[c].pc = "expire"
    /\ rlCalls' = [rlCalls EXCEPT ![c] = [@ EXCEPT !.pc = "done", !.result = TRUE]]
    /\ UNCHANGED <<rlKey, rlAllowed, notRl>>

\* windowSeconds after the EXPIRE the key is gone, and a new window begins
RlKeyExpire ==
    /\ rlKey.count > 0 /\ rlKey.hasExpiry
    /\ rlKey' = [count |-> 0, hasExpiry |-> FALSE]
    /\ rlAllowed' = 0
    /\ UNCHANGED <<rlCalls, notRl>>

NextRate ==
    \/ RedisConnect
    \/ \E c \in RlCallIds : RlStart(c)
    \/ \E c \in RlCallIds : RlIncr(c)
    \/ \E c \in RlCallIds : RlIncrFail(c)
    \/ \E c \in RlCallIds : RlExpire(c)
    \/ \E c \in RlCallIds : RlExpireFail(c)
    \/ RlKeyExpire

SpecRate == Init /\ [][NextRate]_vars

\* C38: of the calls the key has counted in one window at most maxRequests return
\* true; and the key carries an expiry whenever it exists and no call stands
\* between its INCR and its EXPIRE, so that a limited key is allowed again once
\* the window has passed
C38_RateLimitWindow ==
    /\ rlAllowed <= MaxRequests
    /\ (\A c \in RlCallIds : rlCalls[c].pc # "expire")
       => (rlKey.count > 0 => rlKey.hasExpiry)

\* C39: the service holds one live socket at most: no socket that was created and
\* never disconnected exists next to the one this.socket names, and every server
\* event reaches the local listeners once at most
C39_OneLiveSocket ==
    /\ Len(orphans) = 0
    /\ \A e \in ServerEvents : received[e] <= 1

\* ------------------------------------------------------------------------
\* SocketService (src/services/socket.ts lines 3-88)

\* a promise is settled once: resolve and reject of a settled promise do nothing
Settle(promise, outcome) == IF promise = "pending" THEN outcome ELSE promise

\* lines 8-78: connect(); a promise that exists is returned as it is, otherwise a
\* socket is created
SsConnect(token) ==
    /\ ssCalls < MaxSsCalls
    /\ ssCalls' = ssCalls + 1
    /\ IF connectionPromise # "null"
         THEN UNCHANGED <<ssSocket, ssIsConnected, connectionPromise, ssAttempts>>
         ELSE /\ connectionPromise' = "pending"
              /\ ssSocket' = [exists |-> TRUE, connected |-> FALSE, auth |-> token]
              /\ ssAttempts' = ssAttempts + 1
              /\ UNCHANGED ssIsConnected
    /\ UNCHANGED notSs

\* lines 14, 72-75: io() throws, and the catch rejects the new promise
SsConnectThrows ==
    /\ ssCalls < MaxSsCalls
    /\ connectionPromise = "null"
    /\ ssCalls' = ssCalls + 1
    /\ connectionPromise' = "rejected"
    /\ UNCHANGED <<ssSocket, ssIsConnected, ssAttempts, notSs>>

\* lines 36-40: the socket's 'connect' event
SsOnConnect ==
    /\ ssSocket.exists /\ ~ssSocket.connected
    /\ ssSocket' = [ssSocket EXCEPT !.connected = TRUE]
    /\ ssIsConnected' = TRUE
    /\ connectionPromise' = Settle(connectionPromise, "resolved")
    /\ UNCHANGED <<ssAttempts, ssCalls, notSs>>

\* lines 42-45: the socket's 'disconnect' event
SsOnDisconnect ==
    /\ ssSocket.exists /\ ssSocket.connected
    /\ ssSocket' = [ssSocket EXCEPT !.connected = FALSE]
    /\ ssIsConnected' = FALSE
    /\ UNCHANGED <<connectionPromise, ssAttempts, ssCalls, notSs>>

\* lines 47-51: the socket's 'connect_error' event
SsOnConnectError ==
    /\ ssSocket.exists /\ ~ssSocket.connected
    /\ ssIsConnected' = FALSE
    /\ connectionPromise' = Settle(connectionPromise, "rejected")
    /\ UNCHANGED <<ssSocket, ssAttempts, ssCalls, notSs>>

\* lines 80-88: disconnect()
SsDisconnect ==
    /\ IF ssSocket.exists
         THEN /\ ssSocket' = NoSsSocket
              /\ ssIsConnected' = FALSE
              /\ connectionPromise' = "null"
         ELSE UNCHANGED <<ssSocket, ssIsConnected, connectionPromise>>
    /\ UNCHANGED <<ssAttempts, ssCalls, notSs>>

NextSs ==
    \/ \E token \in AuthTokens : SsConnect(token)
    \/ SsConnectThrows
    \/ SsOnConnect
    \/ SsOnDisconnect
    \/ SsOnConnectError
    \/ SsDisconnect

SpecSs == Init /\ [][NextSs]_vars

\* C40: a connect() called after an attempt was rejected starts a new attempt,
\* whose promise is pending and can resolve, instead of returning the rejected
\* promise; a connect() called while an attempt is pending or resolved creates no
\* socket and returns the promise of that attempt
C40_ConnectRecovers ==
    [][(ssCalls' = ssCalls + 1 /\ ~SsConnectThrows) =>
          /\ connectionPromise = "rejected"
             => connectionPromise' = "pending" /\ ssAttempts' = ssAttempts + 1
          /\ connectionPromise \in {"pending", "resolved"}
             => connectionPromise' = connectionPromise /\ ssAttempts' = ssAttempts
      ]_vars

====
